---------------------------- MODULE Spec2Model ----------------------------
(***************************************************************************)
(* A model of the aurorashell wasm runtime: the surface-id lease table     *)
(* (src/runtime/wasm/id.rs), the bounds checks on guest linear memory      *)
(* (src/runtime/wasm/ui.rs, fs.rs), module loading (fs.rs) and the         *)
(* dispatch loop (src/runtime/wasm/mod.rs).                                *)
(***************************************************************************)
EXTENDS Integers, Sequences, FiniteSets, TLC

VARIABLES
    \* ---- the lease table of one module (id.rs), driven on its own
    wasm_id,        \* the WasmId value: current_id, leased_ids, iced_id_lut
    iced_counter,   \* iced::window::Id::unique()'s process-wide counter
    lease_log,      \* every non-zero value unique() has returned, in order
    lease_op,       \* the last operation on the table and what it returned
    \* ---- one bounds-checked record read (ui.rs get_raw_element)
    rd_len, rd_ptr, rd_index, rd_result,
    \* ---- one subscription table, from the guest's encoder to the host's decoder
    tb_registers,   \* Registers::registers, the entries the module declares
    tb_out,         \* what Registers::serialize came to
    tb_data,        \* the byte slice handed to Deserialize::deserialize
    tb_tamper,      \* how that slice differs from the encoder's output
    tb_result,      \* what deserialize returned
    tb_kept,        \* whether load_modules keeps the module
    \* ---- one view tree, from the guest's view_build_ui to the host's build_tree
    ar_widget,      \* the root element the module's view gives
    ar_view,        \* what view_build_ui returned, and the memory it left
    ar_result,      \* what get_element_tree returned
    \* ---- one module's callbacks, from a press in the UI to the guest's update
    cb_state,       \* STATE of the guest, the Module value
    cb_map,         \* CALLBACKS_MAP of the guest: surface id -> callback list
    cb_heap,        \* the boxes run_callback has leaked and update not yet taken
    cb_renders,     \* how many times the view function has been called
    cb_table_render,\* surface id -> the render that registered its callback list
    cb_events,      \* the decoded trees on their way to the UI thread
    cb_shown,       \* surface id -> the tree the UI shows, and its render
    cb_requests,    \* the calls of run_callback asked for and not yet made
    cb_call,        \* the call of run_callback under way, or the last one
    \* ---- the guest's setup data, from setup() to setup_cleanup()
    su_heap,        \* the boxes the conversion has leaked and nothing has freed
    su_frees,       \* address -> how many times the box there has been freed
    su_next,        \* the address the allocator gives next
    su_ptr,         \* SETUP_CLEANUP_PTR, NullPtr for null
    su_op,          \* the calls made, the last one and what it did
    \* ---- the audio widget at startup: the devices and the events of them
    st_devices,     \* what the audio server has: sinks, sources, cards, defaults
    st_left,        \* the startup events not yet delivered
    st_app,         \* the App value, with the fields of its SinkWidget
    \* ---- the runtime task: WasmRuntime::run, _run and load_modules
    pc,             \* where the task is
    epoch,          \* how many times run() has called _run
    host_modules,   \* WasmHost::modules, then `host.modules` of _run
    load_idx,       \* the enumerate() index of the path load_modules is at
    cur,            \* the module being loaded: its store and setup output
    reg_queue,      \* modules_registers_map, what is left to send
    render_queue,   \* render_queue of _run
    cur_render,     \* the module and surface ids of the running render
    request_rx,     \* the flume channel of requests, UI thread -> task
    msg,            \* the callback request being handled
    chan,           \* the iced channel of events, task -> UI thread
    chan_open,      \* FALSE once the UI side has dropped its receiver
    \* ---- the UI thread: App and WasmState
    app_wasm,       \* App::runtime.wasm, an Option<WasmState>
    app_surfaces,   \* the layer surfaces iced has been asked to create
    app_pending,    \* the request the UI thread is blocked sending
    audio_requests, \* what App has sent on service.audio, to the audio service
    \* ---- what has been observed of the run
    handled,        \* the steps taken since the last request was received
    last_call,      \* the last guest call of a request and how it ended
    unrendered,     \* module ids queued for render and not yet taken
    \* ---- the audio service: the throttle of sink volume requests
    vl_since,       \* milliseconds since sink_last_update_time (saturating)
    vl_scheduled,   \* AudioRequestThreadState::sink_thread_scheduled
    vl_data,        \* sink_volume_data, an Option of the volume to set
    vl_threads,     \* the sleep left to each spawned thread, in milliseconds
    vl_request_rx,  \* the service's request channel (modules and threads send)
    vl_internal_rx, \* the channel from run() to the request thread
    vl_users,       \* the volume requests the modules still make
    vl_server,      \* the volume last set on the server; applied: one was set
    vl_call,        \* the last call of set_sink_volume and what it returned
    \* ---- a service's ModuleIds
    mi_events_to_ids,   \* ModuleIds::events_to_ids
    mi_ids_to_events,   \* ModuleIds::ids_to_events
    mi_calls,           \* the calls of register_module and unregister_module made
    \* ---- the audio service's AudioState
    au_devices,     \* the sinks, sources, cards and defaults the server reports
    au_left,        \* the events of them not yet given to AudioState::update
    au_state,       \* the AudioState
    au_events       \* the events the last update returned

lease_vars == <<wasm_id, lease_log, lease_op>>
read_vars == <<rd_len, rd_ptr, rd_index, rd_result>>
table_vars == <<tb_registers, tb_out, tb_data, tb_tamper, tb_result, tb_kept>>
task_vars == <<pc, epoch, host_modules, load_idx, cur, reg_queue, render_queue,
               cur_render, request_rx, msg, chan, chan_open>>
app_vars == <<app_wasm, app_surfaces, app_pending, audio_requests>>
obs_vars == <<handled, last_call, unrendered>>
main_vars == <<task_vars, app_vars, obs_vars>>
arena_vars == <<ar_widget, ar_view, ar_result>>
callback_vars == <<cb_state, cb_map, cb_heap, cb_renders, cb_table_render, cb_events,
                   cb_shown, cb_requests, cb_call>>
setup_vars == <<su_heap, su_frees, su_next, su_ptr, su_op>>
start_vars == <<st_devices, st_left, st_app>>
volume_vars == <<vl_since, vl_scheduled, vl_data, vl_threads, vl_request_rx,
                 vl_internal_rx, vl_users, vl_server, vl_call>>
ids_vars == <<mi_events_to_ids, mi_ids_to_events, mi_calls>>
audio_vars == <<au_devices, au_left, au_state, au_events>>
service_vars == <<volume_vars, ids_vars, audio_vars>>
codec_vars == <<read_vars, table_vars, arena_vars, callback_vars, setup_vars, start_vars,
                service_vars>>
vars == <<lease_vars, iced_counter, codec_vars, main_vars>>
\* what the actions of the services leave alone
runtime_vars == <<read_vars, table_vars, arena_vars, callback_vars, setup_vars,
                  start_vars, lease_vars, iced_counter, main_vars>>

-----------------------------------------------------------------------------
(* Bounds of the model *)

\* revoke is tried on the ids 0..MaxDropId
MaxDropId == 3
\* the guest memory sizes, pointers and indexes tried by the record read
MaxMemSlack == 2
\* the stack frames build_tree may use before the stack overflows
MaxDepth == 4
\* the size of a guest's linear memory, in bytes
MemLen == 160
\* the module files get_module_paths finds
NumPaths == 2
\* the ids a guest leases during setup
MaxLease == 1
\* the layer surfaces a guest declares in its setup output
MaxSurfaces == 2
\* the registers of a guest's subscription table
MaxRegisters == 1
\* the times run() calls _run
MaxRuns == 2
\* the events the iced channel holds (100 in run())
ChanCap == 2
\* the requests the flume channel holds (100 in _run())
ReqCap == 1
\* the values of one half of run_callback's u64 (2^32 in the program, scaled
\* to the integers the checker holds)
HalfRange == 32768
\* the entries of a subscription table
\* a container of the widest tree has up to MaxChildren children
MaxChildren == 256
\* the length of the guest memory an arena is laid out in (one wasm page)
ArenaMemLen == 65536
\* the view function is called up to MaxViews times
MaxViews == 2
\* up to MaxCalls calls of run_callback wait to be made
MaxCalls == 1
\* calls of setup and setup_cleanup made on one guest
MaxSetupCalls == 5
MaxEntries == 4
\* the calls of register_module and unregister_module made on one ModuleIds
MaxIdCalls == 3
\* the modules that register: ids 0..MaxModuleId
MaxModuleId == 1
\* the clock of the audio service advances in steps of TickMillis ms
TickMillis == 50
\* the sink volume requests the modules make
MaxVolumeRequests == 2
\* the sleeping threads that exist at one time
MaxThreads == 2
\* the requests a channel of the audio service holds (CHANNEL_CAPACITY is 64)
VolumeCap == 2
\* the values of the u16 entry count of a table's header (65536 in the
\* program, scaled to the tables that are enumerated)
CountRange == 4

-----------------------------------------------------------------------------
(* Program constants *)

\* u8::MAX, the value of current_id at which unique() gives up
U8_MAX == 255
\* std::mem::size_of::<RawElement>(): u8, u8, 2 bytes of padding, 4 x u32
SIZE_OF_RAW_ELEMENT == 20
\* std::mem::size_of::<ViewFuncData>(): 6 x u32
SIZE_OF_VIEW_FUNC_DATA == 24
\* std::mem::size_of::<RawTextData>(): 2 x u32
SIZE_OF_RAW_TEXT_DATA == 8
\* std::mem::size_of::<RawTextStyle>(): u8
SIZE_OF_RAW_TEXT_STYLE == 1
\* std::mem::size_of::<RawSliderData>(): u8, 7 bytes of padding, 3 x u64
SIZE_OF_RAW_SLIDER_DATA == 32
\* std::mem::size_of::<u32>()
SIZE_OF_U32 == 4
\* std::mem::size_of::<Margin>(): 4 x i32
SIZE_OF_MARGIN == 16
\* std::mem::size_of::<Limits>(): 4 x f32
SIZE_OF_LIMITS == 16
\* the header of a subscription table, `vec![0; 0x10]`
TABLE_HEADER_SIZE == 16
\* one entry of the table, `[u8; 0x10]`
TABLE_ENTRY_SIZE == 16
\* the extra data of an Interval, `[u8; 0x10]`
INTERVAL_EXTRA_SIZE == 16
\* PulseAudio::const_id()
PULSEAUDIO_ID == 1
\* Interval::const_id()
INTERVAL_ID == 3
\* the values of a byte
BYTE_RANGE == 256

-----------------------------------------------------------------------------
(* Finite maps (std::collections::HashMap) as functions *)

EmptyMap == <<>>

\* HashMap::insert: the old value of the key, if any, is replaced
MapInsert(m, k, v) == [x \in (DOMAIN m) \cup {k} |-> IF x = k THEN v ELSE m[x]]

\* HashMap::remove
MapRemove(m, k) == [x \in (DOMAIN m) \ {k} |-> m[x]]

-----------------------------------------------------------------------------
(* WasmId, src/runtime/wasm/id.rs *)

\* impl Default for WasmId
WasmIdDefault == [current_id |-> 1, leased_ids |-> EmptyMap, iced_id_lut |-> EmptyMap]

\* A mutant of unique: on exhaustion the counter wraps to 1 instead of staying.
unique_wraps(w, iced_id) ==
    IF w.current_id = U8_MAX
    THEN [w |-> [w EXCEPT !.current_id = 1], id |-> 0, minted |-> FALSE]
    ELSE [w |-> [current_id |-> w.current_id + 1,
                 leased_ids |-> MapInsert(w.leased_ids, w.current_id, iced_id),
                 iced_id_lut |-> MapInsert(w.iced_id_lut, iced_id, w.current_id)],
          id |-> w.current_id, minted |-> TRUE]

\* WasmId::unique.  iced_id is what Id::unique() mints if it is called;
\* minted tells whether it was.
unique(w, iced_id) ==
    LET bumped == IF w.current_id = 0 THEN w.current_id + 1 ELSE w.current_id
    IN  IF w.current_id # 0 /\ w.current_id = U8_MAX
        THEN [w |-> w, id |-> 0, minted |-> FALSE]
        ELSE [w |-> [current_id |-> bumped + 1,
                     leased_ids |-> MapInsert(w.leased_ids, bumped, iced_id),
                     iced_id_lut |-> MapInsert(w.iced_id_lut, iced_id, bumped)],
              id |-> bumped, minted |-> TRUE]

\* A mutant of has_lease: an id counts as leased when the counter has passed
\* it, whether or not it is in the map.
has_lease_below_counter(w, id) == id < w.current_id

\* WasmId::has_lease
has_lease(w, id) == id \in DOMAIN w.leased_ids

\* A mutant of drop_id: the dropped id becomes the next one to hand out.
drop_id_reuses(w, id) ==
    IF id \in DOMAIN w.leased_ids
    THEN [w |-> [w EXCEPT !.leased_ids = MapRemove(w.leased_ids, id),
                          !.current_id = id], found |-> TRUE]
    ELSE [w |-> w, found |-> FALSE]

\* WasmId::drop_id: only leased_ids is touched
drop_id(w, id) ==
    IF id \in DOMAIN w.leased_ids
    THEN [w |-> [w EXCEPT !.leased_ids = MapRemove(w.leased_ids, id)], found |-> TRUE]
    ELSE [w |-> w, found |-> FALSE]

\* WasmId::get_iced_id (0 stands for None; Id::unique() starts at 1)
get_iced_id(w, id) == IF id \in DOMAIN w.leased_ids THEN w.leased_ids[id] ELSE 0

\* WasmId::get_id (0 stands for None; a leased id is never 0)
get_id(w, iced_id) == IF iced_id \in DOMAIN w.iced_id_lut THEN w.iced_id_lut[iced_id] ELSE 0

-----------------------------------------------------------------------------
(* The lease table driven by lease and revoke calls *)

LeaseInit ==
    /\ wasm_id = WasmIdDefault
    /\ lease_log = <<>>
    /\ lease_op = [op |-> "none", arg |-> 0, ret |-> 0]

\* a call of unique()
Lease ==
    LET r == unique(wasm_id, iced_counter)
    IN  /\ wasm_id' = r.w
        /\ iced_counter' = IF r.minted THEN iced_counter + 1 ELSE iced_counter
        /\ lease_log' = IF r.id # 0 THEN Append(lease_log, r.id) ELSE lease_log
        /\ lease_op' = [op |-> "lease", arg |-> 0, ret |-> r.id]
        /\ UNCHANGED <<codec_vars, main_vars>>

\* a call of drop_id(id)
Revoke(id) ==
    LET r == drop_id(wasm_id, id)
    IN  /\ wasm_id' = r.w
        /\ lease_op' = [op |-> "revoke", arg |-> id,
                        ret |-> IF r.found THEN 1 ELSE 0]
        /\ UNCHANGED <<iced_counter, lease_log, codec_vars, main_vars>>

LeaseNext == Lease \/ \E id \in 0..MaxDropId : Revoke(id)

-----------------------------------------------------------------------------
(* Bounds-checked record reads, src/runtime/wasm/ui.rs *)

\* `if offset >= memory.len() || end >= memory.len()`, the check before every
\* slice of guest memory in get_raw_element, get_element_children, build_tree
\* (RawTextData, RawTextStyle) and load_modules
offsets_out_of_bounds(offset, end, len) == offset >= len \/ end >= len

\* `&memory[offset..end]`: Rust panics unless offset <= end <= len
slice_panics(offset, end, len) == offset > end \/ end > len

-----------------------------------------------------------------------------
(* Guest linear memory as the host reads it.  A memory is its length and  *)
(* the records the guest has written, by address; an address the guest    *)
(* has not written reads as zero bytes, as fresh wasm memory does.        *)

ZeroViewFuncData == [head_index |-> 0, elements_ptr |-> 0, children_ptr |-> 0,
                     raw_text_data_ptr |-> 0, text_style_ptr |-> 0,
                     raw_slider_data_ptr |-> 0]
ZeroRawElement == [tag |-> 0, child_count |-> 0, children_index |-> 0,
                   data_index |-> 0, callback_id |-> 0, style_index |-> 0]
ZeroRawTextData == [content_ptr |-> 0, content_len |-> 0]
ZeroRawSliderData == [number_type |-> 0, range_min |-> 0, range_max |-> 0, value |-> 0]
ZeroString == [content |-> "", utf8 |-> TRUE]

\* std::ptr::read_unaligned of one record of a table at addr
ReadCell(table, addr, zero) == IF addr \in DOMAIN table THEN table[addr] ELSE zero

Failure(kind) == [kind |-> kind, node |-> <<>>]
Success(node) == [kind |-> "Ok", node |-> node]

-----------------------------------------------------------------------------
(* The UI arena decoder, src/runtime/wasm/ui.rs *)

\* get_raw_element: Err when the check refuses the offsets
get_raw_element(mem, data, index) ==
    LET offset == data.elements_ptr + SIZE_OF_RAW_ELEMENT * index
        end == offset + SIZE_OF_RAW_ELEMENT
    IN  IF offsets_out_of_bounds(offset, end, mem.len) THEN Failure("Err")
        ELSE IF slice_panics(offset, end, mem.len) THEN Failure("Panic")
        ELSE Success(ReadCell(mem.elements, offset, ZeroRawElement))

RECURSIVE raw_elements_from(_, _, _, _, _)
\* `indexes.iter().map(|&index| get_raw_element(..)).collect()` over the
\* indexes lo..hi: the first failure ends the collection.  (The range is
\* taken by halves, the first half before the second, to keep the
\* evaluation shallow.)
raw_elements_from(mem, data, indexes, lo, hi) ==
    IF lo > hi THEN Success(<<>>)
    ELSE IF lo = hi THEN
        LET head == get_raw_element(mem, data, indexes[lo])
        IN  IF head.kind # "Ok" THEN head ELSE Success(<<head.node>>)
    ELSE LET mid == (lo + hi) \div 2
             first == raw_elements_from(mem, data, indexes, lo, mid)
         IN  IF first.kind # "Ok" THEN first
             ELSE LET rest == raw_elements_from(mem, data, indexes, mid + 1, hi)
                  IN  IF rest.kind # "Ok" THEN rest
                      ELSE Success(first.node \o rest.node)

\* get_element_children
get_element_children(mem, data, element) ==
    IF element.child_count = 0 THEN Success(<<>>)
    ELSE
    \* (the sum is a u32 sum; the pointers and indexes tried stay far below 2^32)
    LET offset == data.children_ptr + SIZE_OF_U32 * element.children_index
        end == offset + SIZE_OF_U32
    IN  IF offsets_out_of_bounds(offset, end, mem.len) THEN Failure("Err")
        ELSE IF slice_panics(offset, end, mem.len) THEN Failure("Panic")
        ELSE
        LET vec_offset == ReadCell(mem.words, offset, 0)
            len == element.child_count
            vec_end == vec_offset + SIZE_OF_U32 * len
        IN  IF offsets_out_of_bounds(vec_offset, vec_end, mem.len) THEN Failure("Err")
            ELSE IF slice_panics(vec_offset, vec_end, mem.len) THEN Failure("Panic")
            ELSE raw_elements_from(mem, data,
                     [k \in 1..len |->
                         ReadCell(mem.words, vec_offset + SIZE_OF_U32 * (k - 1), 0)],
                     1, len)

\* the Text arm of build_tree
build_text(mem, data, element) ==
    LET offset == data.raw_text_data_ptr + SIZE_OF_RAW_TEXT_DATA * element.data_index
        end == offset + SIZE_OF_RAW_TEXT_DATA
    IN  IF offsets_out_of_bounds(offset, end, mem.len) THEN Failure("Err")
        ELSE IF slice_panics(offset, end, mem.len) THEN Failure("Panic")
        ELSE
        LET raw_text_data == ReadCell(mem.texts, offset, ZeroRawTextData)
            c_offset == raw_text_data.content_ptr
            c_end == c_offset + raw_text_data.content_len
            string == ReadCell(mem.strings, c_offset, ZeroString)
            s_offset == data.text_style_ptr + SIZE_OF_RAW_TEXT_STYLE
            s_end == s_offset + SIZE_OF_RAW_TEXT_STYLE
        IN  \* `&memory[offset..offset + len]` is sliced with no check before it
            IF slice_panics(c_offset, c_end, mem.len) THEN Failure("Panic")
            ELSE IF ~string.utf8 THEN Failure("Err")
            ELSE IF offsets_out_of_bounds(s_offset, s_end, mem.len) THEN Failure("Err")
            ELSE Success([tag |-> "Text", content |-> string.content])

\* the Slider arm of build_tree
build_slider(mem, data, element) ==
    LET offset == data.raw_slider_data_ptr + SIZE_OF_RAW_SLIDER_DATA * element.data_index
        end == offset + SIZE_OF_RAW_SLIDER_DATA
    IN  \* `&memory[offset..end]` is sliced with no check before it
        IF slice_panics(offset, end, mem.len) THEN Failure("Panic")
        ELSE
        LET slider_data == ReadCell(mem.sliders, offset, ZeroRawSliderData)
        IN  IF slider_data.number_type \notin {0, 1, 2} THEN Failure("Err")
            ELSE Success([tag |-> "Slider",
                          number_type |-> slider_data.number_type,
                          range |-> <<slider_data.range_min, slider_data.range_max>>,
                          value |-> slider_data.value,
                          callback_id |-> element.callback_id])

RECURSIVE build_tree(_, _, _, _)
RECURSIVE build_children(_, _, _, _, _, _)

\* `.iter().map(|child| build_tree(..)).collect::<anyhow::Result<Vec<_>>>()`
\* over the elements lo..hi, by halves like raw_elements_from
build_children(mem, data, elems, lo, hi, depth) ==
    IF lo > hi THEN Success(<<>>)
    ELSE IF lo = hi THEN
        LET head == build_tree(mem, data, elems[lo], depth)
        IN  IF head.kind # "Ok" THEN head ELSE Success(<<head.node>>)
    ELSE LET mid == (lo + hi) \div 2
             first == build_children(mem, data, elems, lo, mid, depth)
         IN  IF first.kind # "Ok" THEN first
             ELSE LET rest == build_children(mem, data, elems, mid + 1, hi, depth)
                  IN  IF rest.kind # "Ok" THEN rest
                      ELSE Success(first.node \o rest.node)

\* build_tree.  depth counts the stack frames left: the recursion has no
\* bound of its own, and one that does not end overflows the stack.
build_tree(mem, data, element, depth) ==
    IF depth = 0 THEN Failure("StackOverflow")
    ELSE IF element.tag \in {1, 2, 6} THEN
        LET raw == get_element_children(mem, data, element)
            children == IF raw.kind = "Ok"
                        THEN build_children(mem, data, raw.node, 1, Len(raw.node),
                                            depth - 1)
                        ELSE raw
        IN  IF children.kind # "Ok" THEN children
            ELSE Success([tag |-> CASE element.tag = 1 -> "Row"
                                    [] element.tag = 2 -> "Column"
                                    [] OTHER -> "Stack",
                          children |-> children.node])
    ELSE IF element.tag = 3 THEN build_text(mem, data, element)
    ELSE IF element.tag = 4 THEN
        LET raw == get_element_children(mem, data, element)
            children == IF raw.kind = "Ok"
                        THEN build_children(mem, data, raw.node, 1, Len(raw.node),
                                            depth - 1)
                        ELSE raw
        IN  IF children.kind # "Ok" THEN children
            \* `...collect()?[0]`: indexing an empty Vec panics
            ELSE IF Len(children.node) = 0 THEN Failure("Panic")
            ELSE Success([tag |-> "Button", inner |-> children.node[1],
                          callback_id |-> element.callback_id])
    ELSE IF element.tag = 5 THEN build_slider(mem, data, element)
    ELSE Failure("Err")

\* get_element_tree: the ViewFuncData at `offset` is sliced with no check
get_element_tree(mem, offset) ==
    IF slice_panics(offset, offset + SIZE_OF_VIEW_FUNC_DATA, mem.len)
    THEN Failure("Panic")
    ELSE LET data == ReadCell(mem.views, offset, ZeroViewFuncData)
             head_element == get_raw_element(mem, data, data.head_index)
         IN  IF head_element.kind # "Ok" THEN head_element
             ELSE build_tree(mem, data, head_element.node, MaxDepth)

-----------------------------------------------------------------------------
(* One call of get_raw_element on a memory of rd_len bytes *)

ReadLens == {2 * SIZE_OF_RAW_ELEMENT, 3 * SIZE_OF_RAW_ELEMENT}

ReadInputs ==
    /\ rd_len \in ReadLens
    /\ rd_ptr \in 0..(SIZE_OF_RAW_ELEMENT + MaxMemSlack)
    /\ rd_index \in 0..3
    /\ rd_result = "none"

\* get_raw_element(memory, data, index) is called
ReadRecord ==
    /\ rd_result = "none"
    /\ rd_result' = get_raw_element([len |-> rd_len, elements |-> EmptyMap],
                                    [elements_ptr |-> rd_ptr], rd_index).kind
    /\ UNCHANGED <<rd_len, rd_ptr, rd_index, table_vars, arena_vars, callback_vars, setup_vars, start_vars,
                   service_vars, lease_vars, iced_counter,
                   main_vars>>

ReadNext == ReadRecord

-----------------------------------------------------------------------------
(* Bytes *)

RECURSIVE to_be_bytes(_, _)
\* uN::to_be_bytes: the n bytes of v, most significant first
to_be_bytes(v, n) ==
    IF n = 0 THEN <<>> ELSE Append(to_be_bytes(v \div BYTE_RANGE, n - 1), v % BYTE_RANGE)

RECURSIVE from_be_bytes(_)
\* uN::from_be_bytes
from_be_bytes(bytes) ==
    IF bytes = <<>> THEN 0
    ELSE from_be_bytes(SubSeq(bytes, 1, Len(bytes) - 1)) * BYTE_RANGE + bytes[Len(bytes)]

\* `vec![0; n]`, `[0; n]`
Zeros(n) == [i \in 1..n |-> 0]

\* `dst[at..at + src.len()].copy_from_slice(&src)`, at counted from 0
copy_from_slice(dst, at, src) ==
    [i \in 1..Len(dst) |-> IF i > at /\ i <= at + Len(src) THEN src[i - at] ELSE dst[i]]

\* `&data[from..to]`, both counted from 0, for a range inside data
slice(data, from, to) == SubSeq(data, from + 1, to)

-----------------------------------------------------------------------------
(* The subscription table encoder of the guest library,                   *)
(* modules/test_module/lib/aurorashell_module/src/register                *)

\* the register types a module can declare
Interval(milliseconds, offset) ==
    [type |-> "Interval", milliseconds |-> milliseconds, offset |-> offset]
PulseAudio(bits) == [type |-> "PulseAudio", pulseaudio |-> bits]

\* RegisterTrait::id
register_id(register) ==
    IF register.type = "Interval" THEN INTERVAL_ID ELSE PULSEAUDIO_ID

\* RegisterTrait::allow_duplicates
allow_duplicates(register) == register.type = "Interval"

\* RegisterTrait::registers
register_bits(register) ==
    IF register.type = "Interval" THEN 0 ELSE register.pulseaudio

\* A mutant of the extra data: the 12 bytes of the two fields, unpadded.
register_extra_data_unpadded(register) ==
    IF register.type = "Interval"
    THEN [some |-> TRUE,
          bytes |-> to_be_bytes(register.milliseconds, 8) \o to_be_bytes(register.offset, 4)]
    ELSE [some |-> FALSE, bytes |-> <<>>]

\* RegisterTrait::serialize: the extra data of the register, if it has any
register_extra_data(register) ==
    IF register.type = "Interval"
    THEN [some |-> TRUE,
          bytes |-> copy_from_slice(
                        copy_from_slice(Zeros(INTERVAL_EXTRA_SIZE), 0,
                                        to_be_bytes(register.milliseconds, 8)),
                        8, to_be_bytes(register.offset, 4))]
    ELSE [some |-> FALSE, bytes |-> <<>>]

\* A mutant of the check: a second entry of any id is a duplicate.
is_duplicate_any(seen, register) == register_id(register) \in seen

\* `seen.contains(&id) && !register.allow_duplicates()`
is_duplicate(seen, register) ==
    register_id(register) \in seen /\ ~allow_duplicates(register)

RECURSIVE serialize_entries(_, _, _, _, _, _)
\* the `for register in &self.registers` loop of Registers::serialize
serialize_entries(registers, i, seen, offset, table, extra_data) ==
    IF i > Len(registers) THEN [kind |-> "Ok", table |-> table, extra_data |-> extra_data]
    ELSE
    LET register == registers[i]
        id == register_id(register)
    IN  IF is_duplicate(seen, register)
        THEN \* panic!("detected duplicate register, id: {}", id)
             [kind |-> "Panic", table |-> <<>>, extra_data |-> <<>>]
        ELSE
        LET with_id == copy_from_slice(Zeros(TABLE_ENTRY_SIZE), 0, to_be_bytes(id, 2))
            with_bits == copy_from_slice(with_id, 2, to_be_bytes(register_bits(register), 4))
            extra == register_extra_data(register)
            entry_bytes == IF extra.some
                           THEN copy_from_slice(with_bits, 6, to_be_bytes(offset, 4))
                           ELSE with_bits
        IN  serialize_entries(registers, i + 1, seen \cup {id},
                              offset + Len(extra.bytes),
                              table \o entry_bytes, extra_data \o extra.bytes)

\* Registers::serialize: the bytes of the table, or the panic of the guest
serialize(registers) ==
    LET header == copy_from_slice(
                      copy_from_slice(Zeros(TABLE_HEADER_SIZE), 4, <<0, 1>>),
                      6, to_be_bytes(Len(registers) % CountRange, 2))
        body == serialize_entries(registers, 1, {}, 0, <<>>, <<>>)
        serialized_bytes == header \o body.table \o body.extra_data
    IN  IF body.kind = "Panic" THEN [kind |-> "Panic", bytes |-> <<>>]
        ELSE [kind |-> "Ok",
              bytes |-> copy_from_slice(serialized_bytes, 0,
                                        to_be_bytes(Len(serialized_bytes), 4))]

\* check_duplicates of the registers! macro, on the const ids and flags of
\* the declared types: TRUE when it panics, which fails the build
check_duplicates(registers) ==
    \E i \in 1..Len(registers) :
        /\ ~allow_duplicates(registers[i])
        /\ \E j \in (i + 1)..Len(registers) :
                register_id(registers[i]) = register_id(registers[j])

-----------------------------------------------------------------------------
(* The subscription table decoder of the host, src/runtime/wasm/de.rs *)

\* Register::get_entry_data
get_entry_data(bytes) ==
    [id |-> from_be_bytes(slice(bytes, 0, 2)),
     registers |-> from_be_bytes(slice(bytes, 2, 6)),
     extra_data_offset |-> from_be_bytes(slice(bytes, 6, 10))]

\* A mutant of the check: only the start of the extra data is looked at.
interval_out_of_bounds_start_only(offset, end, len) == offset > len

\* `if offset > data.len() || end > data.len()`
interval_out_of_bounds(offset, end, len) == offset > len \/ end > len

\* A mutant of from_entry_bytes: an entry of an unknown id is taken for a
\* property watch of nothing.
from_entry_bytes_lenient(data, entry_bytes, extra_data_start) ==
    LET entry == get_entry_data(entry_bytes)
    IN  IF entry.id = 3
        THEN LET offset == entry.extra_data_offset + extra_data_start
                 end == offset + INTERVAL_EXTRA_SIZE
             IN  IF interval_out_of_bounds(offset, end, Len(data)) THEN Failure("Err")
                 ELSE LET extra_data == slice(data, offset, end)
                      IN  Success(Interval(from_be_bytes(slice(extra_data, 0, 8)),
                                           from_be_bytes(slice(extra_data, 8, 12))))
        ELSE Success(PulseAudio(IF entry.id = 1 THEN entry.registers % BYTE_RANGE ELSE 0))

\* Register::from_entry_bytes
from_entry_bytes(data, entry_bytes, extra_data_start) ==
    LET entry == get_entry_data(entry_bytes)
    IN  IF entry.id = 1
        THEN \* `entry.registers as u8`
             Success(PulseAudio(entry.registers % BYTE_RANGE))
        ELSE IF entry.id = 3
        THEN LET offset == entry.extra_data_offset + extra_data_start
                 end == offset + INTERVAL_EXTRA_SIZE
             IN  IF interval_out_of_bounds(offset, end, Len(data)) THEN Failure("Err")
                 ELSE IF slice_panics(offset, end, Len(data)) THEN Failure("Panic")
                 ELSE LET extra_data == slice(data, offset, end)
                      IN  Success(Interval(from_be_bytes(slice(extra_data, 0, 8)),
                                           from_be_bytes(slice(extra_data, 8, 12))))
        ELSE Failure("Err")

RECURSIVE entries_from(_, _, _, _)
\* `.chunks_exact(0x10).map(..).collect::<anyhow::Result<Vec<Register>>>()`:
\* the first failure ends the collection
entries_from(data, k, num_registers, registers_table_end) ==
    IF k >= num_registers THEN Success(<<>>)
    ELSE LET at == TABLE_HEADER_SIZE + TABLE_ENTRY_SIZE * k
             head == from_entry_bytes(data, slice(data, at, at + TABLE_ENTRY_SIZE),
                                      registers_table_end)
         IN  IF head.kind # "Ok" THEN head
             ELSE LET rest == entries_from(data, k + 1, num_registers,
                                           registers_table_end)
                  IN  IF rest.kind # "Ok" THEN rest
                      ELSE Success(<<head.node>> \o rest.node)

\* <Vec<Register> as Deserialize>::deserialize
deserialize(data) ==
    IF Len(data) < TABLE_HEADER_SIZE THEN Failure("Err")
    ELSE LET num_registers == from_be_bytes(slice(data, 6, 8))
             registers_table_end == TABLE_ENTRY_SIZE * num_registers + TABLE_HEADER_SIZE
         IN  IF registers_table_end > Len(data) THEN Failure("Err")
             ELSE entries_from(data, 0, num_registers, registers_table_end)

\* load_modules: the module is kept when its table decodes
keeps_module(data) == deserialize(data).kind = "Ok"

-----------------------------------------------------------------------------
(* One subscription table: encoded by the guest, handed to the host as it  *)
(* is or damaged, decoded by load_modules                                 *)

NoBytes == [kind |-> "none", bytes |-> <<>>]
NoResult == [kind |-> "none", node |-> <<>>]

\* the entries a table is made of: a property watch and two timers
RegisterChoices == {PulseAudio(5), Interval(1000, 0), Interval(2000, 7)}

\* the tables of up to MaxEntries entries
Tables == UNION {[1..n -> RegisterChoices] : n \in 0..MaxEntries}

\* tag ids that no register type has
UnknownIds == {0, 2, 4}

TableIdle ==
    /\ tb_registers = <<>>
    /\ tb_out = NoBytes
    /\ tb_data = <<>>
    /\ tb_tamper = "idle"
    /\ tb_result = NoResult
    /\ tb_kept = FALSE

TableInputs ==
    /\ tb_registers \in Tables
    /\ tb_out = NoBytes
    /\ tb_data = <<>>
    /\ tb_tamper = "idle"
    /\ tb_result = NoResult
    /\ tb_kept = FALSE

\* the guest's setup calls Registers::serialize
TableSerialize ==
    /\ tb_out.kind = "none"
    /\ tb_out' = serialize(tb_registers)
    /\ UNCHANGED <<tb_registers, tb_data, tb_tamper, tb_result, tb_kept, read_vars, arena_vars, callback_vars, setup_vars, start_vars,
                   service_vars, lease_vars, iced_counter, main_vars>>

\* the host slices the encoder's bytes out of guest memory
TableHandOver ==
    /\ tb_out.kind = "Ok"
    /\ tb_tamper = "idle"
    /\ tb_data' = tb_out.bytes
    /\ tb_tamper' = "none"
    /\ UNCHANGED <<tb_registers, tb_out, tb_result, tb_kept, read_vars, arena_vars, callback_vars, setup_vars, start_vars,
                   service_vars, lease_vars, iced_counter, main_vars>>

\* the host gets only the first n bytes
TableTruncate(n) ==
    /\ tb_out.kind = "Ok"
    /\ tb_tamper = "idle"
    /\ n < Len(tb_out.bytes)
    /\ tb_data' = SubSeq(tb_out.bytes, 1, n)
    /\ tb_tamper' = "truncated"
    /\ UNCHANGED <<tb_registers, tb_out, tb_result, tb_kept, read_vars, arena_vars, callback_vars, setup_vars, start_vars,
                   service_vars, lease_vars, iced_counter, main_vars>>

\* entry k of the table carries a tag id no register type has
TableUnknownId(k, id) ==
    /\ tb_out.kind = "Ok"
    /\ tb_tamper = "idle"
    /\ k < Len(tb_registers) % CountRange
    /\ tb_data' = copy_from_slice(tb_out.bytes, TABLE_HEADER_SIZE + TABLE_ENTRY_SIZE * k,
                                  to_be_bytes(id, 2))
    /\ tb_tamper' = "unknown_id"
    /\ UNCHANGED <<tb_registers, tb_out, tb_result, tb_kept, read_vars, arena_vars, callback_vars, setup_vars, start_vars,
                   service_vars, lease_vars, iced_counter, main_vars>>

\* entry k of the table points its extra data past the end of the bytes
TableBadOffset(k) ==
    /\ tb_out.kind = "Ok"
    /\ tb_tamper = "idle"
    /\ k < Len(tb_registers) % CountRange
    /\ tb_data' = copy_from_slice(tb_out.bytes,
                                  TABLE_HEADER_SIZE + TABLE_ENTRY_SIZE * k + 6,
                                  to_be_bytes(Len(tb_out.bytes), 4))
    /\ tb_tamper' = "bad_offset"
    /\ UNCHANGED <<tb_registers, tb_out, tb_result, tb_kept, read_vars, arena_vars, callback_vars, setup_vars, start_vars,
                   service_vars, lease_vars, iced_counter, main_vars>>

\* the header counts one entry more than the table has (of a table whose
\* count the header holds)
TableBadCount ==
    /\ tb_out.kind = "Ok"
    /\ tb_tamper = "idle"
    /\ Len(tb_registers) < CountRange
    /\ tb_data' = copy_from_slice(tb_out.bytes, 6,
                                  to_be_bytes(from_be_bytes(slice(tb_out.bytes, 6, 8)) + 1, 2))
    /\ tb_tamper' = "bad_count"
    /\ UNCHANGED <<tb_registers, tb_out, tb_result, tb_kept, read_vars, arena_vars, callback_vars, setup_vars, start_vars,
                   service_vars, lease_vars, iced_counter, main_vars>>

\* load_modules calls Deserialize::deserialize on the bytes and keeps the
\* module or not
TableDeserialize ==
    /\ tb_tamper # "idle"
    /\ tb_result.kind = "none"
    /\ tb_result' = deserialize(tb_data)
    /\ tb_kept' = keeps_module(tb_data)
    /\ UNCHANGED <<tb_registers, tb_out, tb_data, tb_tamper, read_vars, arena_vars, callback_vars, setup_vars, start_vars,
                   service_vars, lease_vars, iced_counter, main_vars>>

TableNext ==
    \/ TableSerialize
    \/ TableHandOver
    \/ \E n \in 0..(TABLE_HEADER_SIZE + 2 * TABLE_ENTRY_SIZE * MaxEntries) : TableTruncate(n)
    \/ \E k \in 0..(MaxEntries - 1), id \in UnknownIds : TableUnknownId(k, id)
    \/ \E k \in 0..(MaxEntries - 1) : TableBadOffset(k)
    \/ TableBadCount
    \/ TableDeserialize

-----------------------------------------------------------------------------
(* The UI arena encoder of the guest library: widget/*.rs and            *)
(* view_build_ui of view.rs                                              *)

\* The widgets.  A text is its bytes; a slider value is an i32, or the bit
\* pattern of an f32 or f64 (number_type 0, 1, 2).  A callback (on_press,
\* on_change) is the closure `|| Message::X.into()`, named by the message id
\* it gives; NoCallback is None.
NoCallback == 0
Text(content) == [tag |-> "Text", content |-> content]
Slider(number_type, range_min, range_max, value, on_change) ==
    [tag |-> "Slider", number_type |-> number_type,
     range |-> <<range_min, range_max>>, value |-> value, on_change |-> on_change]
Button(inner, callback) == [tag |-> "Button", inner |-> inner, callback |-> callback]
Column(children) == [tag |-> "Column", children |-> children]
Row(children) == [tag |-> "Row", children |-> children]

\* the values of a u64, scaled like the halves of a callback result
U64Range == HalfRange * HalfRange

\* SliderNumber::to_u64_bits: `self as u64` sign-extends an i32, to_bits()
\* of a float is its bit pattern
to_u64_bits(number_type, v) == IF number_type = 0 THEN v % U64Range ELSE v

\* Where the guest's allocator has put the tables of the arena, and the
\* width of the slot of one text string.  `as_ptr()` of an empty Vec or
\* String is not an allocation: it is the alignment of the item type.
ArenaLayout == [view |-> 1024, elements |-> 2048, children_ptrs |-> 9000,
                children |-> 10000, text_data |-> 12000, slider_data |-> 16000,
                text_strings |-> 20000, string_slot |-> 8]

\* `v.as_ptr() as u32` of a Vec or String of len items at `at`
as_ptr(len, at, align) == IF len = 0 THEN align ELSE at

\* ElementsMemoryArena::new()
ElementsMemoryArena == [elements |-> <<>>, children |-> <<>>, text_strings |-> <<>>,
                        text_data |-> <<>>, text_style |-> <<>>, slider_data |-> <<>>]

\* `match u8::try_from(len).ok() { Some(v) => v, None => 255 }`
child_count_of(len) == IF len <= U8_MAX THEN len ELSE 255

\* A mutant of push_element: the index is `arena.elements.len()`.
push_element_len(arena, callbacks, element) ==
    [arena |-> [arena EXCEPT !.elements = Append(@, element)],
     callbacks |-> callbacks,
     index |-> Len(arena.elements) + 1]

\* `arena.elements.push(element); arena.elements.len() - 1`
push_element(arena, callbacks, element) ==
    [arena |-> [arena EXCEPT !.elements = Append(@, element)],
     callbacks |-> callbacks,
     index |-> Len(arena.elements)]

\* <Text as Widget>::arena_index (a Style cannot be built outside the
\* library, its field is private: style is None)
text_arena_index(arena, callbacks, self) ==
    LET strings == Append(arena.text_strings, self.content)
        raw_data == [content_ptr |->
                        as_ptr(Len(self.content),
                               ArenaLayout.text_strings
                                   + ArenaLayout.string_slot * (Len(strings) - 1), 1),
                     content_len |-> Len(self.content)]
        text_data == Append(arena.text_data, raw_data)
    IN  push_element([arena EXCEPT !.text_strings = strings, !.text_data = text_data],
                     callbacks,
                     [tag |-> 3, child_count |-> 0, children_index |-> 0,
                      data_index |-> Len(text_data) - 1, callback_index |-> 0,
                      style_index |-> 0])

\* CallbackType::Button(func) and CallbackType::Slider { ty, func }
CallbackButton(func) == [type |-> "Button", ty |-> 0, func |-> func]
CallbackSlider(ty, func) == [type |-> "Slider", ty |-> ty, func |-> func]

\* <Slider<T> as Widget>::arena_index; callbacks is the callback list of
\* the surface
slider_arena_index(arena, callbacks, self) ==
    LET inner == [number_type |-> self.number_type,
                  range_min |-> to_u64_bits(self.number_type, self.range[1]),
                  range_max |-> to_u64_bits(self.number_type, self.range[2]),
                  value |-> to_u64_bits(self.number_type, self.value)]
        slider_data == Append(arena.slider_data, inner)
        pushed == IF self.on_change # NoCallback
                  THEN Append(callbacks, CallbackSlider(self.number_type, self.on_change))
                  ELSE callbacks
    IN  push_element([arena EXCEPT !.slider_data = slider_data], pushed,
                     [tag |-> 5, child_count |-> 0, children_index |-> 0,
                      data_index |-> Len(slider_data) - 1,
                      callback_index |-> IF self.on_change # NoCallback
                                         THEN Len(pushed) ELSE 0,
                      style_index |-> 0])

RECURSIVE arena_index(_, _, _)
RECURSIVE children_arena_indexes(_, _, _, _, _)

\* `for child in &mut self.children { children.push(child.widget.arena_index(..)) }`
\* over the children lo..hi (by halves, the first half before the second)
children_arena_indexes(arena, callbacks, children, lo, hi) ==
    IF lo > hi
    THEN [arena |-> arena, callbacks |-> callbacks, indexes |-> <<>>]
    ELSE IF lo = hi THEN
        LET child == arena_index(arena, callbacks, children[lo])
        IN  [arena |-> child.arena, callbacks |-> child.callbacks,
             indexes |-> <<child.index>>]
    ELSE LET mid == (lo + hi) \div 2
             first == children_arena_indexes(arena, callbacks, children, lo, mid)
             rest == children_arena_indexes(first.arena, first.callbacks, children,
                                            mid + 1, hi)
         IN  \* one index per child of the first half: the condition holds, and
             \* has the first half evaluated before the second is entered
             IF Len(first.indexes) # mid - lo + 1 THEN first
             ELSE [arena |-> rest.arena, callbacks |-> rest.callbacks,
                   indexes |-> first.indexes \o rest.indexes]

\* <Button as Widget>::arena_index
button_arena_index(arena, callbacks, self) ==
    LET inner == arena_index(arena, callbacks, self.inner)
        children == Append(inner.arena.children, <<inner.index>>)
        pushed == IF self.callback # NoCallback
                  THEN Append(inner.callbacks, CallbackButton(self.callback))
                  ELSE inner.callbacks
    IN  push_element([inner.arena EXCEPT !.children = children], pushed,
                     [tag |-> 4, child_count |-> 1,
                      children_index |-> Len(children) - 1, data_index |-> 0,
                      callback_index |-> IF self.callback # NoCallback
                                         THEN Len(pushed) ELSE 0,
                      style_index |-> 0])

\* <Column as Widget>::arena_index
column_arena_index(arena, callbacks, self) ==
    LET done == IF Len(self.children) > 0
                THEN children_arena_indexes(arena, callbacks, self.children, 1,
                                            Len(self.children))
                ELSE [arena |-> arena, callbacks |-> callbacks, indexes |-> <<>>]
        children == IF Len(self.children) > 0
                    THEN Append(done.arena.children, done.indexes)
                    ELSE arena.children
    IN  push_element([done.arena EXCEPT !.children = children], done.callbacks,
                     [tag |-> 2, child_count |-> child_count_of(Len(self.children)),
                      children_index |-> IF Len(self.children) > 0
                                         THEN Len(children) - 1 ELSE 0,
                      data_index |-> 0, callback_index |-> 0, style_index |-> 0])

\* <Row as Widget>::arena_index: a Column in the other direction, with the
\* tag ElementTag::Row
row_arena_index(arena, callbacks, self) ==
    LET done == IF Len(self.children) > 0
                THEN children_arena_indexes(arena, callbacks, self.children, 1,
                                            Len(self.children))
                ELSE [arena |-> arena, callbacks |-> callbacks, indexes |-> <<>>]
        children == IF Len(self.children) > 0
                    THEN Append(done.arena.children, done.indexes)
                    ELSE arena.children
    IN  push_element([done.arena EXCEPT !.children = children], done.callbacks,
                     [tag |-> 1, child_count |-> child_count_of(Len(self.children)),
                      children_index |-> IF Len(self.children) > 0
                                         THEN Len(children) - 1 ELSE 0,
                      data_index |-> 0, callback_index |-> 0, style_index |-> 0])

\* Widget::arena_index, dispatched on the widget behind the Element
arena_index(arena, callbacks, widget) ==
    CASE widget.tag = "Text" -> text_arena_index(arena, callbacks, widget)
      [] widget.tag = "Slider" -> slider_arena_index(arena, callbacks, widget)
      [] widget.tag = "Button" -> button_arena_index(arena, callbacks, widget)
      [] widget.tag = "Column" -> column_arena_index(arena, callbacks, widget)
      [] widget.tag = "Row" -> row_arena_index(arena, callbacks, widget)

RECURSIVE children_ptrs_from(_, _, _)
\* `arena.children.iter().map(|v| v.as_ptr() as u32).collect()`: the
\* vectors of child indexes lie one after the other
children_ptrs_from(children, i, at) ==
    IF i > Len(children) THEN <<>>
    ELSE <<as_ptr(Len(children[i]), at, SIZE_OF_U32)>>
            \o children_ptrs_from(children, i + 1, at + SIZE_OF_U32 * Len(children[i]))

\* the addresses of the n records of `size` bytes of a table at ptr
record_addresses(ptr, size, n) == {ptr + size * (i - 1) : i \in 1..n}
\* the record of a table at ptr that lies at addr
record_at(table, ptr, size, addr) == table[(addr - ptr) \div size + 1]

\* view_build_ui: the guest memory after the call, as the host reads it,
\* and the address of the ViewFuncData the call returns
view_build_ui(root_element) ==
    LET built == arena_index(ElementsMemoryArena, <<>>, root_element)
        arena == built.arena
        children_ptrs == children_ptrs_from(arena.children, 1, ArenaLayout.children)
        data == [head_index |-> built.index,
                 elements_ptr |-> as_ptr(Len(arena.elements), ArenaLayout.elements, 4),
                 children_ptr |-> as_ptr(Len(children_ptrs),
                                         ArenaLayout.children_ptrs, SIZE_OF_U32),
                 raw_text_data_ptr |-> as_ptr(Len(arena.text_data),
                                              ArenaLayout.text_data, 4),
                 text_style_ptr |-> as_ptr(Len(arena.text_style), 0, 1),
                 raw_slider_data_ptr |-> as_ptr(Len(arena.slider_data),
                                                ArenaLayout.slider_data, 8)]
        ptr_addresses == record_addresses(data.children_ptr, SIZE_OF_U32,
                                          Len(children_ptrs))
        vec_addresses(i) == record_addresses(children_ptrs[i], SIZE_OF_U32,
                                             Len(arena.children[i]))
        vec_of(addr) == CHOOSE i \in 1..Len(children_ptrs) : addr \in vec_addresses(i)
        filled == {i \in 1..Len(arena.text_strings) : Len(arena.text_strings[i]) > 0}
        string_ptr(i) == ArenaLayout.text_strings + ArenaLayout.string_slot * (i - 1)
    IN  [offset |-> ArenaLayout.view,
         callbacks |-> built.callbacks,
         arena |-> arena,
         mem |->
            [len |-> ArenaMemLen,
             views |-> (ArenaLayout.view :> data),
             elements |->
                [a \in record_addresses(data.elements_ptr, SIZE_OF_RAW_ELEMENT,
                                        Len(arena.elements)) |->
                    LET e == record_at(arena.elements, data.elements_ptr,
                                       SIZE_OF_RAW_ELEMENT, a)
                    IN  [tag |-> e.tag, child_count |-> e.child_count,
                         children_index |-> e.children_index,
                         data_index |-> e.data_index,
                         callback_id |-> e.callback_index,
                         style_index |-> e.style_index]],
             words |->
                [a \in ptr_addresses
                        \cup UNION {vec_addresses(i) : i \in 1..Len(children_ptrs)} |->
                    IF a \in ptr_addresses
                    THEN record_at(children_ptrs, data.children_ptr, SIZE_OF_U32, a)
                    ELSE record_at(arena.children[vec_of(a)], children_ptrs[vec_of(a)],
                                   SIZE_OF_U32, a)],
             texts |->
                [a \in record_addresses(data.raw_text_data_ptr, SIZE_OF_RAW_TEXT_DATA,
                                        Len(arena.text_data)) |->
                    record_at(arena.text_data, data.raw_text_data_ptr,
                              SIZE_OF_RAW_TEXT_DATA, a)],
             strings |->
                [a \in {1} \cup {string_ptr(i) : i \in filled} |->
                    [content |-> IF a = 1 THEN <<>>
                                 ELSE record_at(arena.text_strings,
                                                ArenaLayout.text_strings,
                                                ArenaLayout.string_slot, a),
                     utf8 |-> TRUE]],
             sliders |->
                [a \in record_addresses(data.raw_slider_data_ptr,
                                        SIZE_OF_RAW_SLIDER_DATA,
                                        Len(arena.slider_data)) |->
                    record_at(arena.slider_data, data.raw_slider_data_ptr,
                              SIZE_OF_RAW_SLIDER_DATA, a)]]]

-----------------------------------------------------------------------------
(* One view tree, built by the guest and decoded by the host *)

NoView == [offset |-> 0, callbacks |-> <<>>, arena |-> ElementsMemoryArena,
           mem |-> [len |-> 0]]

\* the leaves: texts ("hi", "" and "yay"), an i32 slider with a negative
\* bound and an f32 slider with no callback
Leaves ==
    {Text(<<104, 105>>), Text(<<>>), Text(<<121, 97, 121>>),
     Slider(0, -10, 100, 50, 2), Slider(1, 0, 1065353216, 1056964608, NoCallback)}

\* the trees of one level: a leaf, a button around a leaf, and the rows
\* and columns of up to two leaves
Level1 ==
    Leaves
        \cup {Button(l, c) : l \in Leaves, c \in {NoCallback, 1}}
        \cup {Column(<<>>), Row(<<>>)}
        \cup {Column(<<a>>) : a \in Leaves}
        \cup {Row(<<a, b>>) : a \in Leaves, b \in Leaves}

\* the trees of three levels, and the columns of MaxChildren - 2 to
\* MaxChildren texts
WidgetTrees ==
    Level1
        \cup {Column(<<Row(<<Button(a, 1), b>>), Text(<<121, 97, 121>>)>>) :
                a \in Leaves, b \in Level1 \ Leaves}
        \cup {Row(<<Button(Column(<<a, b>>), 1)>>) : a \in Leaves, b \in Leaves}
        \cup {Column([k \in 1..n |-> Text(<<104, 105>>)]) :
                n \in (MaxChildren - 2)..MaxChildren}

ArenaIdle ==
    /\ ar_widget = Text(<<>>)
    /\ ar_view = NoView
    /\ ar_result = NoResult

ArenaInputs ==
    /\ ar_widget \in WidgetTrees
    /\ ar_view = NoView
    /\ ar_result = NoResult

\* the host calls the module's view function, which ends in view_build_ui
ArenaView ==
    /\ ar_view = NoView
    /\ ar_view' = view_build_ui(ar_widget)
    /\ UNCHANGED <<ar_widget, ar_result, read_vars, table_vars, callback_vars, setup_vars, start_vars, service_vars, lease_vars,
                   iced_counter, main_vars>>

\* the host decodes the arena at the address the view function returned
ArenaDecode ==
    /\ ar_view # NoView
    /\ ar_result = NoResult
    /\ ar_result' = get_element_tree(ar_view.mem, ar_view.offset)
    /\ UNCHANGED <<ar_widget, ar_view, read_vars, table_vars, callback_vars, setup_vars, start_vars, service_vars, lease_vars,
                   iced_counter, main_vars>>

\* the addresses of a view's memory that hold the child indexes of its
\* elements: the words that are not the pointers to the child lists
child_index_addresses(view) ==
    DOMAIN view.mem.words
        \ record_addresses(view.mem.views[view.offset].children_ptr, SIZE_OF_U32,
                           Len(view.arena.children))

\* the view's memory names its head element as the child of an element
has_cycle(view) ==
    /\ view # NoView
    /\ \E a \in child_index_addresses(view) :
            view.mem.words[a] = view.mem.views[view.offset].head_index

\* a module whose view function leaves an arena in which an element has
\* the root as a child: the root itself, or one of its descendants
ArenaViewCyclic ==
    /\ ar_view = NoView
    /\ \E view \in {view_build_ui(ar_widget)} :
        \E a \in child_index_addresses(view) :
            ar_view' = [view EXCEPT !.mem.words[a] =
                                        view.mem.views[view.offset].head_index]
    /\ UNCHANGED <<ar_widget, ar_result, read_vars, table_vars, callback_vars,
                   setup_vars, start_vars, service_vars, lease_vars, iced_counter, main_vars>>

\* the view's memory holds a Button element with no child
has_childless_button(view) ==
    /\ view # NoView
    /\ \E a \in DOMAIN view.mem.elements :
            view.mem.elements[a].tag = 4 /\ view.mem.elements[a].child_count = 0

\* a module whose view function leaves a Button element with child_count 0
\* in the arena (the host reads whatever the guest wrote)
ArenaViewChildless ==
    /\ ar_view = NoView
    /\ \E view \in {view_build_ui(ar_widget)} :
        \E a \in DOMAIN view.mem.elements :
            /\ view.mem.elements[a].tag = 4
            /\ ar_view' = [view EXCEPT !.mem.elements[a].child_count = 0]
    /\ UNCHANGED <<ar_widget, ar_result, read_vars, table_vars, callback_vars,
                   setup_vars, start_vars, service_vars, lease_vars, iced_counter, main_vars>>

ArenaNext == ArenaView \/ ArenaViewCyclic \/ ArenaViewChildless \/ ArenaDecode

-----------------------------------------------------------------------------
(* What a guest can hand to the host.  The guest is not trusted: besides   *)
(* the arena the encoder of view_build_ui lays out, the memories below     *)
(* hold lengths, indexes and handles that point outside the memory.        *)

\* The memory after a view call: a ViewFuncData at 0, three elements
\* (0: a Text, 1: a Slider, 2: a Column of both), one RawTextData whose
\* content is content_len bytes long, and one RawSliderData; the Slider
\* element names the record slider_index of the slider table.
ArenaMemory(head_index, content_len, slider_index) ==
    [len |-> MemLen,
     views |-> (0 :> [head_index |-> head_index, elements_ptr |-> 24,
                      children_ptr |-> 100, raw_text_data_ptr |-> 84,
                      text_style_ptr |-> 92, raw_slider_data_ptr |-> 112]),
     elements |-> (24 :> [tag |-> 3, child_count |-> 0, children_index |-> 0,
                          data_index |-> 0, callback_id |-> 0, style_index |-> 0]
                @@ 44 :> [tag |-> 5, child_count |-> 0, children_index |-> 0,
                          data_index |-> slider_index, callback_id |-> 1,
                          style_index |-> 0]
                @@ 64 :> [tag |-> 2, child_count |-> 2, children_index |-> 0,
                          data_index |-> 0, callback_id |-> 0, style_index |-> 0]),
     texts |-> (84 :> [content_ptr |-> 96, content_len |-> content_len]),
     strings |-> (96 :> [content |-> "yay", utf8 |-> TRUE]),
     words |-> (100 :> 104 @@ 104 :> 0 @@ 108 :> 1),
     sliders |-> (112 :> [number_type |-> 2, range_min |-> 0, range_max |-> 100,
                          value |-> 50])]

\* What view() returns, with the memory it leaves: the handle of a
\* well-formed arena, and handles, indexes and lengths off the end of memory
ViewReturns ==
    {[offset |-> 0, mem |-> ArenaMemory(2, 3, 0)],         \* Column [Text, Slider]
     [offset |-> MemLen - 4, mem |-> ArenaMemory(2, 3, 0)], \* handle off the end
     [offset |-> 0, mem |-> ArenaMemory(0, MemLen, 0)],    \* text range off the end
     [offset |-> 0, mem |-> ArenaMemory(1, 3, 2)],         \* slider record off the end
     [offset |-> 0, mem |-> ArenaMemory(MemLen, 3, 0)]}    \* head index off the end

\* One LayerSurfaceRaw of the setup output
SurfaceDescriptor(id, layer) ==
    [id |-> id, layer |-> layer, anchor |-> 5, margin_ptr |-> 0, limits_ptr |-> 16,
     keyboard_interactivity |-> 0, pointer_interactivity |-> 1]

\* The descriptors a guest declares: any id (0, leased to it or not), with
\* a layer that is one of the four or is not
SurfaceDescriptors ==
    {SurfaceDescriptor(id, layer) : id \in 0..(MaxLease + 1), layer \in {2, 4}}

\* What run_callback returns: a u64 in which the guest has packed
\* (message_id << 32) | payload; here message 0 with no payload, and message
\* 1 with its payload at 64
CallbackReturns == {0, 1 * HalfRange + 64}

\* A mutant of unpack_callback_data: the halves are taken the other way.
unpack_callback_data_swapped(callback_data) ==
    [message_id |-> callback_data % HalfRange,
     data_ptr |-> (callback_data \div HalfRange) % HalfRange]

\* `(callback_data >> 32) as u32` and `(callback_data & u32::MAX as u64) as u32`
unpack_callback_data(callback_data) ==
    [message_id |-> (callback_data \div HalfRange) % HalfRange,
     data_ptr |-> callback_data % HalfRange]

-----------------------------------------------------------------------------
(* Events and requests, src/runtime/wasm/messages.rs, src/runtime/mod.rs *)

\* RuntimeEvent::Init(WasmState { channel: request_tx, .. }) of run `e`
InitEvent(e) == [type |-> "Init", epoch |-> e]
CreateLayerSurface(iced_id) == [type |-> "CreateLayerSurface", id |-> iced_id]
RegisterModuleToService(module_id, register) ==
    [type |-> "RegisterModuleToService", module_id |-> module_id, register |-> register]
ModViewData(module_id, surface_id, tree) ==
    [type |-> "ModViewData", module_id |-> module_id, surface_id |-> surface_id,
     tree |-> tree]

\* RuntimeRequest::Request { request: Request::CallbackEvent { .. } }
CallbackEvent(module_id, surface_id, callback_id) ==
    [type |-> "CallbackEvent", module_id |-> module_id, surface_id |-> surface_id,
     callback_id |-> callback_id]
\* RuntimeRequest::ServiceData { data }
ServiceData == [type |-> "ServiceData"]
\* ServiceRequest::SubscribeModule { id, data }
SubscribeModule(id, data) == [type |-> "SubscribeModule", id |-> id, data |-> data]

NoMsg == [type |-> "None"]

-----------------------------------------------------------------------------
(* The runtime task: run and _run up to the loop, load_modules *)

NoCur == [loading |-> FALSE, wasm_id |-> WasmIdDefault, used_surface_ids |-> <<>>,
          n_surfaces |-> 0, k |-> 0]
NoRender == [module_id |-> 0, surface_ids |-> <<>>, k |-> 0]
NoCall == [fn |-> "none", ok |-> TRUE]

\* `?` on a failed call or send: _run returns Err, its locals (the host, the
\* render queue, the receiver of the request channel) are dropped, and run()
\* logs the crash and goes round its loop
ReturnErr ==
    /\ pc' = "start"
    /\ host_modules' = <<>>
    /\ load_idx' = 0
    /\ cur' = NoCur
    /\ reg_queue' = <<>>
    /\ render_queue' = <<>>
    /\ cur_render' = NoRender
    /\ request_rx' = <<>>
    /\ msg' = NoMsg

\* a panic on the task: the task is gone, with the locals of _run
Panic ==
    /\ pc' = "panicked"
    /\ host_modules' = <<>>
    /\ load_idx' = 0
    /\ cur' = NoCur
    /\ reg_queue' = <<>>
    /\ render_queue' = <<>>
    /\ cur_render' = NoRender
    /\ request_rx' = <<>>
    /\ msg' = NoMsg

\* run() calls _run, which makes the request channel and sends Init
RunStart ==
    /\ pc = "start"
    /\ epoch < MaxRuns
    /\ epoch' = epoch + 1
    /\ IF chan_open
       THEN /\ Len(chan) < ChanCap
            /\ chan' = Append(chan, InitEvent(epoch + 1))
            /\ pc' = "load"
            /\ request_rx' = <<>>
            /\ UNCHANGED <<host_modules, load_idx, cur, reg_queue, render_queue,
                           cur_render, msg>>
       ELSE ReturnErr /\ UNCHANGED chan
    /\ handled' = <<>>
    /\ last_call' = NoCall
    /\ unrendered' = {}
    /\ UNCHANGED <<chan_open, app_vars, iced_counter, lease_vars, codec_vars>>

\* IdType::try_from (id.rs 105-115): 0 is None, 1 is LayerSurface, any
\* other value an Err
IdType_try_from(value) ==
    IF value = 0 THEN [kind |-> "Ok", ty |-> "None"]
    ELSE IF value = 1 THEN [kind |-> "Ok", ty |-> "LayerSurface"]
    ELSE [kind |-> "Err", ty |-> ""]

\* the host function "get_unique_id" (api.rs 7-26):
\* `match IdType::try_from(id_type).unwrap()`, a panic of the host on Err,
\* 0 for IdType::None and `surface_wasm_id.unique()` for LayerSurface
get_unique_id(w, iced_id, id_type) ==
    LET ty == IdType_try_from(id_type)
    IN  IF ty.kind = "Err" THEN [kind |-> "Panic", w |-> w, ret |-> 0]
        ELSE IF ty.ty = "None" THEN [kind |-> "Ok", w |-> w, ret |-> 0]
        ELSE [kind |-> "Ok", w |-> unique(w, iced_id).w, ret |-> unique(w, iced_id).id]

\* the id types a guest passes: None, LayerSurface and two values that no
\* IdType has
IdTypeValues == {0, 1, 2, 255}

RECURSIVE unique_times(_, _, _)
\* the guest calls get_unique_id(IdType::LayerSurface) n times (api.rs)
unique_times(w, iced_id, n) ==
    IF n = 0 THEN w
    ELSE unique_times(get_unique_id(w, iced_id, 1).w, iced_id + 1, n - 1)

\* load_modules, one path of the stream: from the file name to the slice of
\* layer surfaces.  The module fails here (return None), or its setup has
\* leased `leases` ids and declared `n` layer surfaces.
LoadModule ==
    /\ pc = "load"
    /\ load_idx < NumPaths
    /\ \/ /\ load_idx' = load_idx + 1
          /\ UNCHANGED <<pc, cur, iced_counter, host_modules, reg_queue,
                         render_queue, cur_render, request_rx, msg, lease_vars>>
       \/ \E leases \in 0..MaxLease, n \in 0..MaxSurfaces :
            /\ cur' = [loading |-> TRUE,
                       wasm_id |-> unique_times(WasmIdDefault, iced_counter, leases),
                       used_surface_ids |-> <<>>, n_surfaces |-> n, k |-> 1]
            /\ iced_counter' = iced_counter + leases
            /\ pc' = "load_surfaces"
            /\ UNCHANGED <<load_idx, host_modules, reg_queue, render_queue,
                           cur_render, request_rx, msg, lease_vars>>
       \/ \E id_type \in IdTypeValues :
            \* the setup of the guest asks for an id of a type of its choice
            LET out == get_unique_id(WasmIdDefault, iced_counter, id_type)
            IN  /\ out.kind = "Panic"
                /\ Panic
                /\ lease_op' = [op |-> "get_unique_id", arg |-> id_type,
                                ret |-> out.ret]
                /\ UNCHANGED <<iced_counter, wasm_id, lease_log>>
    /\ UNCHANGED <<epoch, chan, chan_open, app_vars, obs_vars, codec_vars>>

\* LayerSurfaceRaw::into_iced: the iced id of the settings, or 0 for None
into_iced(surface, mem_len, w) ==
    IF get_iced_id(w, surface.id) = 0 THEN 0
    ELSE IF surface.layer \notin 0..3 THEN 0
    ELSE IF surface.anchor \notin 0..15 THEN 0
    ELSE IF offsets_out_of_bounds(surface.margin_ptr,
                surface.margin_ptr + SIZE_OF_MARGIN, mem_len) THEN 0
    ELSE IF offsets_out_of_bounds(surface.limits_ptr,
                surface.limits_ptr + SIZE_OF_LIMITS, mem_len) THEN 0
    ELSE IF surface.keyboard_interactivity \notin 0..2 THEN 0
    ELSE IF surface.pointer_interactivity \notin 0..1 THEN 0
    ELSE get_iced_id(w, surface.id)

\* load_modules, `for surface in layer_surfaces`: one surface
LoadSurface ==
    /\ pc = "load_surfaces"
    /\ cur.k <= cur.n_surfaces
    /\ \E surface \in SurfaceDescriptors :
        LET used == IF has_lease(cur.wasm_id, surface.id)
                    THEN Append(cur.used_surface_ids, surface.id)
                    ELSE cur.used_surface_ids
            layer == into_iced(surface, MemLen, cur.wasm_id)
        IN  /\ cur' = [cur EXCEPT !.used_surface_ids = used, !.k = cur.k + 1]
            /\ IF layer # 0 /\ chan_open
               THEN /\ Len(chan) < ChanCap
                    /\ chan' = Append(chan, CreateLayerSurface(layer))
               ELSE \* the settings are None, or the send failed: skipped
                    UNCHANGED chan
    /\ UNCHANGED <<pc, epoch, host_modules, load_idx, reg_queue, render_queue,
                   cur_render, request_rx, msg, chan_open, app_vars, obs_vars,
                   iced_counter, lease_vars, codec_vars>>

\* load_modules, after the surfaces: the registers are read and decoded and
\* setup_cleanup is called.  Either fails (return None), or the module is kept.
LoadFinish ==
    /\ pc = "load_surfaces"
    /\ cur.k > cur.n_surfaces
    /\ \/ UNCHANGED host_modules
       \/ \E registers \in 0..MaxRegisters :
            host_modules' = Append(host_modules,
                [id |-> load_idx, registers |-> registers, wasm_id |-> cur.wasm_id,
                 used_surface_ids |-> cur.used_surface_ids])
    /\ cur' = NoCur
    /\ load_idx' = load_idx + 1
    /\ pc' = "load"
    /\ UNCHANGED <<epoch, reg_queue, render_queue, cur_render, request_rx, msg,
                   chan, chan_open, app_vars, obs_vars, iced_counter,
                   lease_vars, codec_vars>>

RECURSIVE registers_map(_, _)
\* `for module in &host.modules { for register in &module.registers { .. } }`
registers_map(modules, i) ==
    IF i > Len(modules) THEN <<>>
    ELSE [r \in 1..modules[i].registers |-> <<modules[i].id, r>>]
         \o registers_map(modules, i + 1)

\* the stream is collected: _run builds modules_registers_map
LoadCollect ==
    /\ pc = "load"
    /\ load_idx = NumPaths
    /\ reg_queue' = registers_map(host_modules, 1)
    /\ pc' = "registers"
    /\ UNCHANGED <<epoch, host_modules, load_idx, cur, render_queue, cur_render,
                   request_rx, msg, chan, chan_open, app_vars, obs_vars, iced_counter,
                   lease_vars, codec_vars>>

\* `for register in modules_registers_map { chan.send(..).await? }`, then the
\* render queue is made of the ids of the loaded modules
SendRegister ==
    /\ pc = "registers"
    /\ IF reg_queue = <<>>
       THEN /\ render_queue' = [i \in 1..Len(host_modules) |-> host_modules[i].id]
            /\ unrendered' = {host_modules[i].id : i \in 1..Len(host_modules)}
            /\ pc' = "render"
            /\ UNCHANGED <<host_modules, load_idx, cur, reg_queue, cur_render,
                           request_rx, msg, chan>>
       ELSE IF chan_open
       THEN /\ Len(chan) < ChanCap
            /\ chan' = Append(chan, RegisterModuleToService(Head(reg_queue)[1],
                                                            Head(reg_queue)[2]))
            /\ reg_queue' = Tail(reg_queue)
            /\ UNCHANGED <<pc, host_modules, load_idx, cur, render_queue, cur_render,
                           request_rx, msg, unrendered>>
       ELSE ReturnErr /\ UNCHANGED <<chan, unrendered>>
    /\ UNCHANGED <<epoch, chan_open, app_vars, handled, last_call, iced_counter,
                   lease_vars, codec_vars>>

-----------------------------------------------------------------------------
(* The dispatch loop, WasmRuntime::_run from `'main: loop` *)

\* `host.modules[module_id as usize]` and `host.modules.get_mut(..)`: the
\* position in the Vec of loaded modules, counted from 0
module_at(modules, module_id) == modules[module_id + 1]
in_modules(modules, module_id) == module_id < Len(modules)

\* A mutant of RenderPop: a module with no view function ends the render
\* loop (`break 'render`) instead of being skipped (`continue 'render`).
RenderPop_breaks ==
    /\ pc = "render"
    /\ IF render_queue = <<>>
       THEN pc' = "await" /\ UNCHANGED <<render_queue, cur_render, unrendered, handled,
                                         host_modules, load_idx, cur, reg_queue,
                                         request_rx, msg>>
       ELSE LET module_id == Head(render_queue)
            IN  IF ~in_modules(host_modules, module_id)
                THEN Panic /\ UNCHANGED <<unrendered, handled>>
                ELSE /\ render_queue' = Tail(render_queue)
                     /\ unrendered' = unrendered \ {module_id}
                     /\ handled' = Append(handled, [step |-> "render",
                                                    module |-> module_id])
                     /\ \/ pc' = "await" /\ UNCHANGED cur_render
                        \/ /\ cur_render' =
                                [module_id |-> module_id,
                                 surface_ids |->
                                    module_at(host_modules, module_id).used_surface_ids,
                                 k |-> 1]
                           /\ pc' = "render_surface"
                     /\ UNCHANGED <<host_modules, load_idx, cur, reg_queue,
                                    request_rx, msg>>
    /\ UNCHANGED <<epoch, chan, chan_open, app_vars, last_call, iced_counter,
                   lease_vars, codec_vars>>

\* `'render: loop`: the next module id is popped, or the loop ends.  The
\* module is looked up by position; its view function is there or not; its
\* used surface ids are cloned for the `for` loop.
RenderPop ==
    /\ pc = "render"
    /\ IF render_queue = <<>>
       THEN pc' = "await" /\ UNCHANGED <<render_queue, cur_render, unrendered, handled,
                                         host_modules, load_idx, cur, reg_queue,
                                         request_rx, msg>>
       ELSE LET module_id == Head(render_queue)
            IN  IF ~in_modules(host_modules, module_id)
                THEN \* index out of bounds
                     Panic /\ UNCHANGED <<unrendered, handled>>
                ELSE /\ render_queue' = Tail(render_queue)
                     /\ unrendered' = unrendered \ {module_id}
                     /\ handled' = Append(handled, [step |-> "render",
                                                    module |-> module_id])
                     /\ \/ \* no view function: continue 'render
                           UNCHANGED <<pc, cur_render>>
                        \/ /\ cur_render' =
                                [module_id |-> module_id,
                                 surface_ids |->
                                    module_at(host_modules, module_id).used_surface_ids,
                                 k |-> 1]
                           /\ pc' = "render_surface"
                     /\ UNCHANGED <<host_modules, load_idx, cur, reg_queue,
                                    request_rx, msg>>
    /\ UNCHANGED <<epoch, chan, chan_open, app_vars, last_call, iced_counter,
                   lease_vars, codec_vars>>

\* `for surface_id in surface_ids.iter()`: one surface.  view is called; its
\* result is decoded; the iced id is looked up; ModViewData is sent.
RenderSurface ==
    /\ pc = "render_surface"
    /\ IF cur_render.k > Len(cur_render.surface_ids)
       THEN /\ pc' = "render"
            /\ cur_render' = NoRender
            /\ UNCHANGED <<host_modules, load_idx, cur, reg_queue, render_queue,
                           request_rx, msg, chan>>
       ELSE
       LET module == module_at(host_modules, cur_render.module_id)
           surface_id == cur_render.surface_ids[cur_render.k]
           next == [cur_render EXCEPT !.k = cur_render.k + 1]
       IN  \/ \* the view call failed: continue
              /\ cur_render' = next
              /\ UNCHANGED <<pc, host_modules, load_idx, cur, reg_queue, render_queue,
                             request_rx, msg, chan>>
           \/ \E view \in ViewReturns :
                LET ui_tree == get_element_tree(view.mem, view.offset)
                    iced_surface_id == get_iced_id(module.wasm_id, surface_id)
                IN  IF ui_tree.kind \in {"Panic", "StackOverflow"}
                    THEN Panic /\ UNCHANGED chan
                    ELSE IF ui_tree.kind = "Err" \/ iced_surface_id = 0
                    THEN /\ cur_render' = next
                         /\ UNCHANGED <<pc, host_modules, load_idx, cur, reg_queue,
                                        render_queue, request_rx, msg, chan>>
                    ELSE IF chan_open
                    THEN /\ Len(chan) < ChanCap
                         /\ chan' = Append(chan, ModViewData(module.id, iced_surface_id,
                                                             ui_tree.node))
                         /\ cur_render' = next
                         /\ UNCHANGED <<pc, host_modules, load_idx, cur, reg_queue,
                                        render_queue, request_rx, msg>>
                    ELSE ReturnErr /\ UNCHANGED chan
    /\ UNCHANGED <<epoch, chan_open, app_vars, obs_vars, iced_counter, lease_vars, codec_vars>>

\* `request_rx.recv_async().await` gives a request, and `match msg`: a
\* CallbackEvent for a module that is there has its surface id translated
\* and run_callback looked up; anything else falls through to the loop
Recv ==
    /\ pc = "await"
    /\ request_rx # <<>>
    /\ request_rx' = Tail(request_rx)
    /\ LET request == Head(request_rx)
       IN  IF request.type = "CallbackEvent" /\ in_modules(host_modules, request.module_id)
           THEN LET module == module_at(host_modules, request.module_id)
                    surface_id == get_id(module.wasm_id, request.surface_id)
                IN  /\ handled' = <<[step |-> "translate", module |-> request.module_id,
                                     from |-> request.surface_id, to |-> surface_id]>>
                    /\ IF surface_id = 0
                       THEN \* the iced id maps to no u32: continue 'main
                            msg' = NoMsg /\ pc' = "render"
                       ELSE \/ \* no run_callback function: continue 'main
                               msg' = NoMsg /\ pc' = "render"
                            \/ /\ msg' = [type |-> "Callback",
                                          module_id |-> request.module_id,
                                          surface_id |-> surface_id,
                                          callback_id |-> request.callback_id]
                               /\ pc' = "run_callback"
           ELSE handled' = <<>> /\ msg' = NoMsg /\ pc' = "render"
    /\ last_call' = NoCall
    /\ UNCHANGED <<epoch, host_modules, load_idx, cur, reg_queue, render_queue,
                   cur_render, chan, chan_open, app_vars, unrendered, iced_counter,
                   lease_vars, codec_vars>>

\* recv_async fails, every sender being gone: the task sleeps and goes
\* round the main loop (`continue 'main`)
RecvDisconnected ==
    /\ pc = "await"
    /\ request_rx = <<>>
    /\ ~chan_open
    /\ pc' = "render"
    /\ UNCHANGED <<epoch, host_modules, load_idx, cur, reg_queue, render_queue,
                   cur_render, request_rx, msg, chan, chan_open, app_vars, obs_vars,
                   iced_counter, lease_vars, codec_vars>>

\* `callback_func.call_async(..).await?`, the unpacking of its result and the
\* lookup of update
RunCallback ==
    /\ pc = "run_callback"
    /\ \/ \* the call failed: `?` returns the error from _run
          /\ last_call' = [fn |-> "run_callback", ok |-> FALSE]
          /\ ReturnErr
          /\ UNCHANGED handled
       \/ \E callback_data \in CallbackReturns :
            LET message == unpack_callback_data(callback_data)
            IN  /\ last_call' = [fn |-> "run_callback", ok |-> TRUE]
                /\ handled' = Append(handled,
                       [step |-> "run_callback", module |-> msg.module_id,
                        args |-> <<msg.surface_id, msg.callback_id, 0>>,
                        ret |-> callback_data])
                /\ \/ \* no update function: continue 'main
                      msg' = NoMsg /\ pc' = "render"
                   \/ /\ msg' = [type |-> "Update", module_id |-> msg.module_id,
                                 message_id |-> message.message_id,
                                 data_ptr |-> message.data_ptr]
                      /\ pc' = "update"
                /\ UNCHANGED <<host_modules, load_idx, cur, reg_queue, render_queue,
                               cur_render, request_rx>>
    /\ UNCHANGED <<epoch, chan, chan_open, app_vars, unrendered, iced_counter,
                   lease_vars, codec_vars>>

\* A mutant of Update: the module is not queued for render after update.
Update_without_enqueue ==
    /\ pc = "update"
    /\ last_call' = [fn |-> "update", ok |-> TRUE]
    /\ handled' = Append(handled,
           [step |-> "update", module |-> msg.module_id,
            args |-> <<msg.message_id, msg.data_ptr>>])
    /\ msg' = NoMsg
    /\ pc' = "render"
    /\ UNCHANGED <<host_modules, load_idx, cur, reg_queue, cur_render, request_rx,
                   render_queue, unrendered>>
    /\ UNCHANGED <<epoch, chan, chan_open, app_vars, iced_counter,
                   lease_vars, codec_vars>>

\* `update_func.call_async(..).await?` and `render_queue.push_back(module_id)`
Update ==
    /\ pc = "update"
    /\ \/ \* the call failed: `?` returns the error from _run
          /\ last_call' = [fn |-> "update", ok |-> FALSE]
          /\ ReturnErr
          /\ UNCHANGED <<handled, unrendered>>
       \/ /\ last_call' = [fn |-> "update", ok |-> TRUE]
          /\ handled' = Append(Append(handled,
                 [step |-> "update", module |-> msg.module_id,
                  args |-> <<msg.message_id, msg.data_ptr>>]),
                 [step |-> "enqueue", module |-> msg.module_id])
          /\ render_queue' = Append(render_queue, msg.module_id)
          /\ unrendered' = unrendered \cup {msg.module_id}
          /\ msg' = NoMsg
          /\ pc' = "render"
          /\ UNCHANGED <<host_modules, load_idx, cur, reg_queue, cur_render, request_rx>>
    /\ UNCHANGED <<epoch, chan, chan_open, app_vars, iced_counter,
                   lease_vars, codec_vars>>

-----------------------------------------------------------------------------
(* The UI thread: App::update (src/app.rs) and WasmState::update (state.rs) *)

NoWasm == [some |-> FALSE, epoch |-> 0, surface_module_ids |-> EmptyMap,
           module_ui_trees |-> EmptyMap]

\* WasmState::update, Event::ModViewData
insert_tree(wasm, module_id, surface_id, tree) ==
    [wasm EXCEPT
        !.surface_module_ids = MapInsert(wasm.surface_module_ids, surface_id, module_id),
        !.module_ui_trees =
            MapInsert(wasm.module_ui_trees, module_id,
                MapInsert(IF module_id \in DOMAIN wasm.module_ui_trees
                          THEN wasm.module_ui_trees[module_id] ELSE EmptyMap,
                          surface_id, tree))]

\* App::update, AppMessage::Runtime: the next event of the channel
AppUpdate ==
    /\ chan_open
    /\ app_pending = NoMsg
    /\ chan # <<>>
    /\ chan' = Tail(chan)
    /\ LET event == Head(chan)
       IN  CASE event.type = "Init" ->
                \* the layer surfaces of surface_module_ids are destroyed
                /\ app_surfaces' = app_surfaces \ DOMAIN app_wasm.surface_module_ids
                /\ app_wasm' = [some |-> TRUE, epoch |-> event.epoch,
                                surface_module_ids |-> EmptyMap,
                                module_ui_trees |-> EmptyMap]
             [] event.type = "ModViewData" /\ app_wasm.some ->
                /\ app_wasm' = insert_tree(app_wasm, event.module_id, event.surface_id,
                                           event.tree)
                /\ UNCHANGED app_surfaces
             [] event.type = "CreateLayerSurface" /\ app_wasm.some ->
                \* get_layer_surface(layer)
                /\ app_surfaces' = app_surfaces \cup {event.id}
                /\ UNCHANGED app_wasm
             [] event.type = "RegisterModuleToService" /\ app_wasm.some ->
                \* wasm.update ignores the event, and both arms of
                \* `match register` are empty: nothing goes to a service
                UNCHANGED <<app_wasm, app_surfaces>>
             [] OTHER -> UNCHANGED <<app_wasm, app_surfaces>>
    /\ UNCHANGED <<pc, epoch, host_modules, load_idx, cur, reg_queue, render_queue,
                   cur_render, request_rx, msg, chan_open, app_pending, audio_requests,
                   obs_vars, iced_counter, lease_vars, codec_vars>>

RECURSIVE tree_callbacks(_)
\* app.rs build_tree: the callback ids the widgets of a tree send
tree_callbacks(node) ==
    CASE node.tag \in {"Row", "Column", "Stack"} ->
            UNION {tree_callbacks(node.children[i]) : i \in 1..Len(node.children)}
      [] node.tag = "Button" ->
            (IF node.callback_id # 0 THEN {node.callback_id} ELSE {})
            \cup tree_callbacks(node.inner)
      [] node.tag = "Slider" -> {node.callback_id}
      [] OTHER -> {}

\* the request channel of the WasmState the app holds is that of the running
\* _run (its receiver is dropped when _run returns)
connected == app_wasm.some /\ app_wasm.epoch = epoch /\ pc \notin {"start", "panicked"}

\* WasmRuntime::request: `state.channel.send(request)`, a blocking send on a
\* bounded channel.  With the receiver gone it fails and is logged.
request(r) ==
    IF ~connected THEN UNCHANGED <<request_rx, app_pending>>
    ELSE IF Len(request_rx) < ReqCap
    THEN request_rx' = Append(request_rx, r) /\ UNCHANGED app_pending
    ELSE app_pending' = r /\ UNCHANGED request_rx

\* App::update, AppMessage::Request: a widget of a tree shown on a surface
\* that exists sends its CallbackEvent
UiCallback ==
    /\ chan_open
    /\ app_pending = NoMsg
    /\ app_wasm.some
    /\ \E surface_id \in DOMAIN app_wasm.surface_module_ids \cap app_surfaces :
        LET module_id == app_wasm.surface_module_ids[surface_id]
        IN  /\ module_id \in DOMAIN app_wasm.module_ui_trees
            /\ surface_id \in DOMAIN app_wasm.module_ui_trees[module_id]
            /\ \E callback_id \in
                    tree_callbacks(app_wasm.module_ui_trees[module_id][surface_id]) :
                 request(CallbackEvent(module_id, surface_id, callback_id))
    /\ UNCHANGED <<pc, epoch, host_modules, load_idx, cur, reg_queue, render_queue,
                   cur_render, msg, chan, chan_open, app_wasm, app_surfaces,
                   audio_requests, obs_vars, iced_counter, lease_vars, codec_vars>>

\* App::update, ServiceMessage::Audio(ServiceEvent::Update): the event is
\* sent to the runtime as ServiceData
AudioUpdate ==
    /\ chan_open
    /\ app_pending = NoMsg
    /\ app_wasm.some
    /\ request(ServiceData)
    /\ UNCHANGED <<pc, epoch, host_modules, load_idx, cur, reg_queue, render_queue,
                   cur_render, msg, chan, chan_open, app_wasm, app_surfaces,
                   audio_requests, obs_vars, iced_counter, lease_vars, codec_vars>>

\* the blocked send of the UI thread goes through, or fails with the receiver
AppUnblock ==
    /\ app_pending # NoMsg
    /\ IF connected
       THEN /\ Len(request_rx) < ReqCap
            /\ request_rx' = Append(request_rx, app_pending)
       ELSE UNCHANGED request_rx
    /\ app_pending' = NoMsg
    /\ UNCHANGED <<pc, epoch, host_modules, load_idx, cur, reg_queue, render_queue,
                   cur_render, msg, chan, chan_open, app_wasm, app_surfaces,
                   audio_requests, obs_vars, iced_counter, lease_vars, codec_vars>>

\* the UI side ends: the receiver of the event channel is dropped, and with
\* the WasmState every sender of the request channel
AppClose ==
    /\ chan_open
    /\ app_pending = NoMsg
    /\ chan_open' = FALSE
    /\ chan' = <<>>
    /\ app_wasm' = NoWasm
    /\ UNCHANGED <<pc, epoch, host_modules, load_idx, cur, reg_queue, render_queue,
                   cur_render, request_rx, msg, app_surfaces, app_pending,
                   audio_requests, obs_vars, iced_counter, lease_vars, codec_vars>>

-----------------------------------------------------------------------------
(* The callbacks of one module: the test module of modules/test_module,   *)
(* the glue of create_module!, and run_callback of the guest library      *)

\* Module::new: the Module value (the surface ids it leases are 1 and 2)
ModuleNew == [button_state |-> FALSE, slider_value |-> 50, slider_value2 |-> 70]

\* Module::view.  (The texts are cut to the 8 bytes of a string slot; a
\* slider value is the bit pattern of its f64.)
ModuleView(state, id) ==
    IF id = 1 THEN
        Column(<<Text(<<121, 97, 121>>), Text(<<102, 111, 120>>),
                 Text(<<109, 108, 101, 109>>), Text(<<104, 117, 103>>),
                 Row(<<Text(<<97, 118, 97>>), Text(<<60, 51>>)>>),
                 Button(Text(IF state.button_state THEN <<116, 114, 117, 101>>
                                                  ELSE <<102, 97, 108, 115, 101>>), 1),
                 Text(<<61, state.slider_value>>),
                 Slider(2, 0, 100, state.slider_value, 2)>>)
    ELSE IF id = 2 THEN
        Column(<<Slider(2, 0, 100, state.slider_value, 2),
                 Slider(2, 0, 100, state.slider_value2, 3)>>)
    ELSE Text(<<99, 114, 105, 101, 115>>)

\* the values a slider of the UI is moved to
DataValues == {0, 50}
\* where the guest's allocator puts a leaked Box
LeakAddresses == {64, HalfRange - 1}

\* A mutant of callback_index: the index wraps around the list.
callback_index_wrapping(callbacks_map, surface_id, callback_id) ==
    IF surface_id \notin DOMAIN callbacks_map \/ callbacks_map[surface_id] = <<>> THEN 0
    ELSE ((callback_id + Len(callbacks_map[surface_id]) - 1)
            % Len(callbacks_map[surface_id])) + 1

\* run_callback, the lookup: the place in the list of the surface of the
\* callback to call, 0 when the call returns 0 without calling one
callback_index(callbacks_map, surface_id, callback_id) ==
    IF callback_id = 0 THEN 0
    ELSE IF surface_id \notin DOMAIN callbacks_map THEN 0
    ELSE IF callback_id - 1 >= Len(callbacks_map[surface_id]) THEN 0
    ELSE callback_id

\* `(data.0 as u64) << 32 | data.1 as u64`
pack_return_data(message_id, data_ptr) == ((message_id * HalfRange) % U64Range) + data_ptr

\* run_callback.  free_ptr is where the allocator would put a new Box.
run_callback(callbacks_map, surface_id, callback_id, data, free_ptr) ==
    LET index == callback_index(callbacks_map, surface_id, callback_id)
    IN  IF index = 0
        THEN [ret |-> 0, index |-> 0, data |-> <<0, 0>>, leaked |-> FALSE, value |-> 0]
        ELSE LET callback == callbacks_map[surface_id][index]
                 pair == IF callback.type = "Button" THEN <<callback.func, 0>>
                         ELSE <<callback.func, free_ptr>>
             IN  [ret |-> pack_return_data(pair[1], pair[2]), index |-> index,
                  data |-> pair, leaked |-> callback.type = "Slider", value |-> data]

\* `update` of create_module!, Message::try_from and Module::update: the
\* Box of a slider message is taken back from data_ptr
guest_update(state, heap, id, data_ptr) ==
    LET value == IF data_ptr \in DOMAIN heap THEN heap[data_ptr] ELSE 0
    IN  CASE id = 1 -> [state |-> [state EXCEPT !.button_state = ~@], heap |-> heap]
          [] id = 2 -> [state |-> [state EXCEPT !.slider_value = value],
                        heap |-> MapRemove(heap, data_ptr)]
          [] id = 3 -> [state |-> [state EXCEPT !.slider_value2 = value],
                        heap |-> MapRemove(heap, data_ptr)]
          [] OTHER -> [state |-> state, heap |-> heap]

NoCallbackCall == [step |-> "none"]

CallbackIdle ==
    /\ cb_state = ModuleNew
    /\ cb_map = EmptyMap
    /\ cb_heap = EmptyMap
    /\ cb_renders = 0
    /\ cb_table_render = EmptyMap
    /\ cb_events = <<>>
    /\ cb_shown = EmptyMap
    /\ cb_requests = <<>>
    /\ cb_call = NoCallbackCall

\* mod.rs 'render: the host calls view(id), which ends in view_build_ui and
\* replaces the callback list of the surface, decodes the arena and sends
\* the tree to the UI thread
CallbackRender(id) ==
    /\ cb_call.step # "called"
    /\ cb_renders < MaxViews
    /\ \E view \in {view_build_ui(ModuleView(cb_state, id))} :
        \E tree \in {get_element_tree(view.mem, view.offset)} :
           /\ tree.kind = "Ok"
           /\ cb_map' = MapInsert(cb_map, id, view.callbacks)
           /\ cb_table_render' = MapInsert(cb_table_render, id, cb_renders + 1)
           /\ cb_events' = Append(cb_events, [surface_id |-> id, tree |-> tree.node,
                                              render |-> cb_renders + 1])
    /\ cb_renders' = cb_renders + 1
    /\ UNCHANGED <<cb_state, cb_heap, cb_shown, cb_requests, cb_call, read_vars,
                   table_vars, arena_vars, setup_vars, start_vars, service_vars, lease_vars, iced_counter, main_vars>>

\* WasmState::update, Event::ModViewData: the tree of the surface is replaced
CallbackShow ==
    /\ cb_events # <<>>
    /\ cb_shown' = MapInsert(cb_shown, Head(cb_events).surface_id,
                             [tree |-> Head(cb_events).tree,
                              render |-> Head(cb_events).render])
    /\ cb_events' = Tail(cb_events)
    /\ UNCHANGED <<cb_state, cb_map, cb_heap, cb_renders, cb_table_render, cb_requests,
                   cb_call, read_vars, table_vars, arena_vars, setup_vars, start_vars, service_vars, lease_vars, iced_counter,
                   main_vars>>

\* app.rs build_tree: a widget of a tree the UI shows sends its CallbackEvent
CallbackPress ==
    /\ Len(cb_requests) < MaxCalls
    /\ \E surface_id \in DOMAIN cb_shown :
        \E callback_id \in tree_callbacks(cb_shown[surface_id].tree) :
            \E data \in DataValues :
                cb_requests' = Append(cb_requests,
                    [surface_id |-> surface_id, callback_id |-> callback_id,
                     data |-> data, render |-> cb_shown[surface_id].render])
    /\ UNCHANGED <<cb_state, cb_map, cb_heap, cb_renders, cb_table_render, cb_events,
                   cb_shown, cb_call, read_vars, table_vars, arena_vars, setup_vars, start_vars, service_vars, lease_vars,
                   iced_counter, main_vars>>

\* run_callback is an export of the guest: a call of it with any surface
\* id and callback id (render 0: the call is of no tree)
CallbackCall(surface_id, callback_id) ==
    /\ Len(cb_requests) < MaxCalls
    /\ cb_requests' = Append(cb_requests,
            [surface_id |-> surface_id, callback_id |-> callback_id, data |-> 0,
             render |-> 0])
    /\ UNCHANGED <<cb_state, cb_map, cb_heap, cb_renders, cb_table_render, cb_events,
                   cb_shown, cb_call, read_vars, table_vars, arena_vars, setup_vars, start_vars, service_vars, lease_vars,
                   iced_counter, main_vars>>

\* mod.rs 280-285: `callback_func.call_async(..)` and the unpacking of what
\* it returned.  cb_call keeps the state of the guest before the call and
\* after the last call made for the request.
CallbackRun ==
    /\ cb_requests # <<>>
    /\ cb_call.step # "called"
    /\ \E free_ptr \in LeakAddresses \ DOMAIN cb_heap :
        LET r == Head(cb_requests)
            out == run_callback(cb_map, r.surface_id, r.callback_id, r.data, free_ptr)
        IN  /\ cb_heap' = IF out.leaked THEN MapInsert(cb_heap, free_ptr, out.value)
                          ELSE cb_heap
            /\ cb_call' = [step |-> "called", request |-> r, ret |-> out.ret,
                           index |-> out.index, data |-> out.data,
                           table_render |-> IF out.index = 0 THEN 0
                                            ELSE cb_table_render[r.surface_id],
                           message |-> unpack_callback_data(out.ret),
                           before |-> [state |-> cb_state, map |-> cb_map,
                                       heap |-> cb_heap],
                           after |-> [state |-> cb_state, map |-> cb_map,
                                      heap |-> IF out.leaked
                                               THEN MapInsert(cb_heap, free_ptr, out.value)
                                               ELSE cb_heap]]
    /\ cb_requests' = Tail(cb_requests)
    /\ UNCHANGED <<cb_state, cb_map, cb_renders, cb_table_render, cb_events, cb_shown,
                   read_vars, table_vars, arena_vars, setup_vars, start_vars, service_vars, lease_vars, iced_counter,
                   main_vars>>

\* mod.rs 303-305: `update_func.call_async(&mut module.store, (message_id, data_ptr))`
CallbackUpdate ==
    /\ cb_call.step = "called"
    /\ LET u == guest_update(cb_state, cb_heap, cb_call.message.message_id,
                             cb_call.message.data_ptr)
       IN  /\ cb_state' = u.state
           /\ cb_heap' = u.heap
           /\ cb_call' = [cb_call EXCEPT !.step = "updated",
                                         !.after = [state |-> u.state, map |-> cb_map,
                                                    heap |-> u.heap]]
    /\ UNCHANGED <<cb_map, cb_renders, cb_table_render, cb_events, cb_shown,
                   cb_requests, read_vars, table_vars, arena_vars, setup_vars, start_vars, service_vars, lease_vars,
                   iced_counter, main_vars>>

CallbackNext ==
    \/ \E id \in 1..2 : CallbackRender(id)
    \/ CallbackShow
    \/ CallbackPress
    \/ \E surface_id \in 1..3 : \E callback_id \in 0..3 :
            CallbackCall(surface_id, callback_id)
    \/ CallbackRun
    \/ CallbackUpdate

-----------------------------------------------------------------------------
(* The setup data of the guest library,                                    *)
(* modules/test_module/lib/aurorashell_module/src/setup.rs: the boxes the  *)
(* conversion of SetupData leaks for the host to read, and setup_cleanup   *)

\* `std::ptr::null_mut()`, what SETUP_CLEANUP_PTR starts as
NullPtr == 0

\* the SetupData values a module's new() gives: the test module's, one with
\* a single timer and no surface, and one whose table names a property
\* watch twice
SetupValues ==
    {[module_name |-> "bar_clock_module", layer_surfaces |-> 2,
      registers |-> <<Interval(1000, 0), Interval(2000, 7), PulseAudio(5),
                      Interval(1000, 0)>>],
     [module_name |-> "timer", layer_surfaces |-> 0,
      registers |-> <<Interval(1000, 0)>>],
     [module_name |-> "twice", layer_surfaces |-> 1,
      registers |-> <<PulseAudio(5), PulseAudio(5)>>]}

\* Box::leak(Box::new(value)) at the address the allocator gives
box_leak(mem, at, value) == [mem EXCEPT !.heap = MapInsert(mem.heap, at, value)]

\* drop(Box::from_raw(ptr)): the box is freed, once more if it was before
box_drop(mem, ptr) ==
    [mem EXCEPT !.heap = MapRemove(mem.heap, ptr),
                !.frees = MapInsert(mem.frees, ptr, ReadCell(mem.frees, ptr, 0) + 1)]

\* setup_cleanup: nothing when SETUP_CLEANUP_PTR is null; else the pointer
\* is swapped for null and the five boxes it leads to are dropped.  A
\* pointer to a box already freed is read as the record it held (the bytes
\* are still there in the linear memory).
setup_cleanup(mem) ==
    IF mem.ptr = NullPtr THEN [mem EXCEPT !.freed = {}]
    ELSE
    LET cleanup_data == mem.heap[mem.ptr]
    IN  [box_drop(box_drop(box_drop(box_drop(box_drop(mem, mem.ptr),
            cleanup_data.data_ptr), cleanup_data.func_ptr),
            cleanup_data.layer_surfaces_ptr), cleanup_data.registers_bytes_ptr)
         EXCEPT !.ptr = NullPtr,
                !.freed = {mem.ptr, cleanup_data.data_ptr, cleanup_data.func_ptr,
                           cleanup_data.layer_surfaces_ptr,
                           cleanup_data.registers_bytes_ptr}]

\* `impl From<SetupData> for *const SetupFuncData`: setup_cleanup, then the
\* value, its raw layer surfaces, the bytes of its table, the SetupFuncData
\* and the SetupCleanup are leaked in that order and the last is stored in
\* SETUP_CLEANUP_PTR.  Registers::serialize panics on a duplicate, which in
\* the guest is a trap: the call ends there with two boxes leaked.
setup_data_into(mem, value) ==
    LET cleaned == setup_cleanup(mem)
        at == cleaned.next
        leaked_self == box_leak(cleaned, at, [kind |-> "SetupData", value |-> value])
        leaked_layer_surfaces ==
            box_leak(leaked_self, at + 1,
                     [kind |-> "Vec<LayerSurfaceRaw>", len |-> value.layer_surfaces])
        register_bytes == serialize(value.registers)
        leaked_register_bytes ==
            box_leak(leaked_layer_surfaces, at + 2,
                     [kind |-> "[u8]", bytes |-> register_bytes.bytes])
        leaked_data ==
            box_leak(leaked_register_bytes, at + 3,
                     [kind |-> "SetupFuncData", module_name_ptr |-> at,
                      layer_surfaces_ptr |-> at + 1,
                      layer_surfaces_len |-> value.layer_surfaces,
                      registers_bytes_ptr |-> at + 2])
        leaked_cleanup ==
            box_leak(leaked_data, at + 4,
                     [kind |-> "SetupCleanup", data_ptr |-> at, func_ptr |-> at + 3,
                      layer_surfaces_ptr |-> at + 1,
                      registers_bytes_ptr |-> at + 2])
    IN  IF register_bytes.kind = "Panic"
        THEN [mem |-> [leaked_layer_surfaces EXCEPT !.next = at + 2],
              trapped |-> TRUE, ret |-> NullPtr]
        ELSE [mem |-> [leaked_cleanup EXCEPT !.next = at + 5, !.ptr = at + 4],
              trapped |-> FALSE, ret |-> at + 3]

\* the memory of the guest as the operators above take it
SetupMemory ==
    [heap |-> su_heap, frees |-> su_frees, next |-> su_next, ptr |-> su_ptr,
     freed |-> {}]

\* no call of setup has been made
SetupIdle ==
    /\ su_heap = EmptyMap
    /\ su_frees = EmptyMap
    /\ su_next = 1
    /\ su_ptr = NullPtr
    /\ su_op = [fn |-> "none", calls |-> 0]

\* the `setup` export of create_module!: `setup_data.into()`
GuestSetup(value) ==
    /\ su_op.calls < MaxSetupCalls
    /\ LET out == setup_data_into(SetupMemory, value)
       IN  /\ su_heap' = out.mem.heap
           /\ su_frees' = out.mem.frees
           /\ su_next' = out.mem.next
           /\ su_ptr' = out.mem.ptr
           /\ su_op' = [fn |-> "setup", calls |-> su_op.calls + 1,
                        pending |-> su_ptr # NullPtr, trapped |-> out.trapped,
                        ret |-> out.ret, freed |-> out.mem.freed,
                        unchanged |-> FALSE]
    /\ UNCHANGED <<read_vars, table_vars, arena_vars, callback_vars, start_vars, service_vars, lease_vars,
                   iced_counter, main_vars>>

\* the `setup_cleanup` export, which load_modules calls once it has read
\* the setup data (fs.rs 504-527)
GuestSetupCleanup ==
    /\ su_op.calls < MaxSetupCalls
    /\ LET out == setup_cleanup(SetupMemory)
       IN  /\ su_heap' = out.heap
           /\ su_frees' = out.frees
           /\ su_next' = out.next
           /\ su_ptr' = out.ptr
           /\ su_op' = [fn |-> "setup_cleanup", calls |-> su_op.calls + 1,
                        pending |-> su_ptr # NullPtr, trapped |-> FALSE,
                        ret |-> NullPtr, freed |-> out.freed,
                        unchanged |-> /\ out.heap = su_heap
                                      /\ out.frees = su_frees
                                      /\ out.ptr = su_ptr]
    /\ UNCHANGED <<read_vars, table_vars, arena_vars, callback_vars, start_vars, service_vars, lease_vars,
                   iced_counter, main_vars>>

SetupNext ==
    \/ \E value \in SetupValues : GuestSetup(value)
    \/ GuestSetupCleanup

-----------------------------------------------------------------------------
(* The audio widget at startup: App::update of src/main.rs and             *)
(* SinkWidget::update of src/sink.rs under the five events the audio       *)
(* service sends when it starts                                            *)

\* `const UPDATE_INTERVAL: Duration = Duration::from_millis(100)`
UPDATE_INTERVAL == 100

\* `const PULSE_MAX_VOLUME: u32 = 65536`
PULSE_MAX_VOLUME == 65536

Some(v) == [some |-> TRUE, v |-> v]
None == [some |-> FALSE]

\* audio.rs: Sink, Source, Card and Profile.  `volume` is what
\* `volume.avg()` gives of the ChannelVolumes.
Sink(name, description, volume, mute, card_index) ==
    [name |-> name, description |-> description, volume |-> volume, mute |-> mute,
     card_index |-> card_index]
Source(name, description, volume) ==
    [name |-> name, description |-> description, volume |-> volume]
Profile(name, description) == [name |-> name, description |-> description]
Card(name, index, profiles, selected_profile) ==
    [name |-> name, index |-> index, profiles |-> profiles,
     selected_profile |-> selected_profile]

\* `f32::round(volume as f32 / PULSE_MAX_VOLUME as f32 * 100.0)`: the
\* percentage, halves rounded away from zero
volume_percent(volume) ==
    (2 * volume * 100 + PULSE_MAX_VOLUME) \div (2 * PULSE_MAX_VOLUME)

\* the index of the first element of a list with the name, 0 if none has it
position_by_name(list, name) ==
    IF \E i \in 1..Len(list) : list[i].name = name
    THEN CHOOSE i \in 1..Len(list) :
            /\ list[i].name = name
            /\ \A j \in 1..(i - 1) : list[j].name # name
    ELSE 0

\* the indexes of the cards of a list with the card index
cards_with_index(cards, index) == {i \in 1..Len(cards) : cards[i].index = index}

\* App::default and SinkWidget::default
AppDefault ==
    [sinks |-> <<>>, ui_selected_sink |-> None, default_sink |-> None,
     ui_sink_volume |-> 35, ui_sink_mute |-> FALSE, sink_profiles |-> <<"rawr">>,
     ui_sink_selected_profile |-> None,
     sources |-> <<>>, selected_source |-> None, default_source |-> None,
     source_volume |-> 55, cards |-> <<>>]

\* SinkWidget::get_default_sink
get_default_sink(app) ==
    IF app.default_sink.some
    THEN LET i == position_by_name(app.sinks, app.default_sink.v)
         IN  IF i = 0 THEN None ELSE Some(app.sinks[i])
    ELSE None

\* the descriptions of the selected profiles of the cards of `at`, in order,
\* the cards without one left out
selected_descriptions(cards, at) ==
    LET with == {i \in at : cards[i].selected_profile.some}
    IN  IF with = {} THEN None
        ELSE Some(cards[CHOOSE i \in with : \A j \in with : j <= i]
                      .selected_profile.v.description)

\* sink.rs 182-209, audio::Event::SinksChanged; `cards` is the `audio.cards`
\* of the call, the cards the caller holds
sinks_changed(app, cards, sinks) ==
    LET stored == [app EXCEPT !.sinks = sinks]
        sink == get_default_sink(stored)
    IN  IF ~sink.some THEN stored
        ELSE
        LET profile == IF sink.v.card_index.some
                       THEN selected_descriptions(
                                cards, cards_with_index(cards, sink.v.card_index.v))
                       ELSE None
        IN  [stored EXCEPT
                !.ui_selected_sink = Some(sink.v.description),
                !.ui_sink_selected_profile = IF profile.some THEN profile ELSE @,
                !.ui_sink_volume = volume_percent(sink.v.volume),
                !.ui_sink_mute = sink.v.mute]

\* sink.rs 210-246, audio::Event::DefaultSinkChanged: the description and
\* the volume of the sink are taken, and the selected profile of its card;
\* `mute` is not
default_sink_changed(app, cards, name) ==
    LET stored == [app EXCEPT !.default_sink = name]
        i == IF name.some THEN position_by_name(app.sinks, name.v) ELSE 0
    IN  IF i = 0 THEN stored
        ELSE
        LET sink == app.sinks[i]
            selected == [stored EXCEPT
                            !.ui_selected_sink = Some(sink.description),
                            !.ui_sink_volume = volume_percent(sink.volume)]
            at == IF sink.card_index.some
                  THEN cards_with_index(cards, sink.card_index.v) ELSE {}
        IN  IF at = {} THEN selected
            ELSE
            LET card == cards[CHOOSE c \in at : \A d \in at : c <= d]
            IN  IF card.selected_profile.some
                THEN [selected EXCEPT !.ui_sink_selected_profile =
                                          Some(card.selected_profile.v.description)]
                ELSE selected

\* main.rs 230-245, Message::EventSourcesChanged
sources_changed(app, sources) ==
    LET stored == [app EXCEPT !.sources = sources]
        i == IF app.default_source.some
             THEN position_by_name(sources, app.default_source.v) ELSE 0
    IN  IF i = 0 THEN stored
        ELSE [stored EXCEPT !.selected_source = Some(sources[i].description),
                            !.source_volume = volume_percent(sources[i].volume)]

\* main.rs 246-261, Message::EventDefaultSourceChanged
default_source_changed(app, source) ==
    LET stored == [app EXCEPT !.default_source = source]
        i == IF source.some THEN position_by_name(app.sources, source.v) ELSE 0
    IN  IF i = 0 THEN stored
        ELSE [stored EXCEPT !.selected_source = Some(app.sources[i].description),
                            !.source_volume = volume_percent(app.sources[i].volume)]

\* main.rs 262-296, Message::EventCardsChanged: every card with the index of
\* the default sink's card gives the profile list and the selected profile
cards_changed(app, cards) ==
    LET stored == [app EXCEPT !.cards = cards]
        sink == get_default_sink(stored)
        at == IF sink.some /\ sink.v.card_index.some
              THEN cards_with_index(cards, sink.v.card_index.v) ELSE {}
    IN  IF at = {} THEN stored
        ELSE
        LET card == cards[CHOOSE c \in at : \A d \in at : d <= c]
        IN  [stored EXCEPT
                !.sink_profiles = [p \in 1..Len(card.profiles) |->
                                       card.profiles[p].description],
                !.ui_sink_selected_profile =
                    IF card.selected_profile.some
                    THEN Some(card.selected_profile.v.description) ELSE None]

\* the raw volumes devices are given: 13 and 100 per cent
VolumeSamples == {8192, PULSE_MAX_VOLUME}

\* the devices of test_app_start_event_order, with the default devices, the
\* mute flags, the volumes and the selected profile of the first card drawn
\* from small sets
Devices(sink, source, mute_1, mute_2, sink_vol, source_vol, selected) ==
    [sinks |-> <<Sink("sink_1", "Sink 1", sink_vol, mute_1, Some(97)),
                 Sink("sink_2", "Sink 2", sink_vol, mute_2, Some(117))>>,
     default_sink |-> Some(sink),
     sources |-> <<Source("source_1", "Sink 1", source_vol),
                   Source("source_2", "Sink 2", source_vol)>>,
     default_source |-> Some(source),
     cards |-> <<Card("card_1", 97,
                      <<Profile("card_1_profile_1", "Card 1 Profile 1"),
                        Profile("card_1_profile_2", "Card 1 Profile 2")>>,
                      Some(Profile("card_1_profile_" \o selected,
                                   "Card 1 Profile " \o selected))),
                 Card("card_2", 117,
                      <<Profile("card_2_profile_1", "Card 2 Profile 1"),
                        Profile("card_2_profile_2", "Card 2 Profile 2")>>,
                      Some(Profile("card_2_profile_1", "Card 2 Profile 1")))>>]

StartDevices ==
    {Devices(default_sink, default_source, mute_1, mute_2, sink_volume,
             source_volume, selected) :
        default_sink \in {"sink_1", "sink_2"}, default_source \in {"source_1"},
        mute_1 \in BOOLEAN, mute_2 \in BOOLEAN, sink_volume \in VolumeSamples,
        source_volume \in VolumeSamples, selected \in {"1", "2"}}

\* the events the audio service sends at startup
StartEvents == {"SinksChanged", "DefaultSinkChanged", "SourcesChanged",
                "DefaultSourceChanged", "CardsChanged"}

\* no startup is under way
StartIdle ==
    /\ st_devices = Devices("sink_1", "source_1", FALSE, FALSE, PULSE_MAX_VOLUME,
                            PULSE_MAX_VOLUME, "1")
    /\ st_left = {}
    /\ st_app = AppDefault

\* App::default(), before the first of the five events
StartInputs ==
    /\ st_devices \in StartDevices
    /\ st_left = StartEvents
    /\ st_app = AppDefault

StartSinksChanged ==
    /\ "SinksChanged" \in st_left
    /\ st_left' = st_left \ {"SinksChanged"}
    /\ st_app' = sinks_changed(st_app, st_app.cards, st_devices.sinks)
    /\ UNCHANGED <<st_devices, read_vars, table_vars, arena_vars, callback_vars,
                   setup_vars, service_vars, lease_vars, iced_counter, main_vars>>

StartDefaultSinkChanged ==
    /\ "DefaultSinkChanged" \in st_left
    /\ st_left' = st_left \ {"DefaultSinkChanged"}
    /\ st_app' = default_sink_changed(st_app, st_app.cards, st_devices.default_sink)
    /\ UNCHANGED <<st_devices, read_vars, table_vars, arena_vars, callback_vars,
                   setup_vars, service_vars, lease_vars, iced_counter, main_vars>>

StartSourcesChanged ==
    /\ "SourcesChanged" \in st_left
    /\ st_left' = st_left \ {"SourcesChanged"}
    /\ st_app' = sources_changed(st_app, st_devices.sources)
    /\ UNCHANGED <<st_devices, read_vars, table_vars, arena_vars, callback_vars,
                   setup_vars, service_vars, lease_vars, iced_counter, main_vars>>

StartDefaultSourceChanged ==
    /\ "DefaultSourceChanged" \in st_left
    /\ st_left' = st_left \ {"DefaultSourceChanged"}
    /\ st_app' = default_source_changed(st_app, st_devices.default_source)
    /\ UNCHANGED <<st_devices, read_vars, table_vars, arena_vars, callback_vars,
                   setup_vars, service_vars, lease_vars, iced_counter, main_vars>>

StartCardsChanged ==
    /\ "CardsChanged" \in st_left
    /\ st_left' = st_left \ {"CardsChanged"}
    /\ st_app' = cards_changed(st_app, st_devices.cards)
    /\ UNCHANGED <<st_devices, read_vars, table_vars, arena_vars, callback_vars,
                   setup_vars, service_vars, lease_vars, iced_counter, main_vars>>

StartNext ==
    \/ StartSinksChanged \/ StartDefaultSinkChanged \/ StartSourcesChanged
    \/ StartDefaultSourceChanged \/ StartCardsChanged

-----------------------------------------------------------------------------
(* The audio service: sink volume requests and their throttle.  Modules   *)
(* send requests on the service's channel, run() relays them to the       *)
(* request thread, which asks set_sink_volume whether to set the volume   *)
(* now; a thread spawned by set_sink_volume sends the request again later. *)

\* Request::SetSinkVolume { name, volume } of the one sink; deferred tells
\* the requests a sleeping thread sent from those of the modules
SetSinkVolume(volume, deferred) ==
    [type |-> "SetSinkVolume", volume |-> volume, deferred |-> deferred]

\* the volumes the modules ask for
VolumeLevels == {1, 2}

\* no call of set_sink_volume has been made
NoVolumeCall == [step |-> "none", delta |-> 0, ret |-> FALSE, spawned |-> FALSE,
                 applied_before |-> FALSE]

\* AudioRequestThreadState::set_sink_volume, called delta after
\* sink_last_update_time: whether it returns true, the flag it leaves,
\* whether it spawned a thread, how long that thread sleeps, and whether
\* sink_last_update_time became now.  Inside the interval with no thread
\* scheduled, the thread is spawned and the flag set, and control goes on
\* past the `if` to the three statements that end the function.
set_sink_volume(scheduled, delta) ==
    LET in_interval == delta <= UPDATE_INTERVAL
        spawned == in_interval /\ ~scheduled
        returned_false == in_interval /\ scheduled
    IN  IF returned_false
        THEN [ret |-> FALSE, scheduled |-> scheduled, spawned |-> FALSE,
              wait_time |-> 0, updated |-> FALSE]
        ELSE [ret |-> TRUE, scheduled |-> FALSE, spawned |-> spawned,
              wait_time |-> IF spawned THEN UPDATE_INTERVAL - delta ELSE 0,
              updated |-> TRUE]

\* AudioRequestThreadState::init: the last update time is the time of init
VolumeIdle ==
    /\ vl_since = 0
    /\ vl_scheduled = FALSE
    /\ vl_data = None
    /\ vl_threads = <<>>
    /\ vl_request_rx = <<>>
    /\ vl_internal_rx = <<>>
    /\ vl_users = 0
    /\ vl_server = [volume |-> 0, applied |-> FALSE]
    /\ vl_call = NoVolumeCall

VolumeInputs ==
    /\ vl_since = 0
    /\ vl_scheduled = FALSE
    /\ vl_data = None
    /\ vl_threads = <<>>
    /\ vl_request_rx = <<>>
    /\ vl_internal_rx = <<>>
    /\ vl_users = MaxVolumeRequests
    /\ vl_server = [volume |-> 0, applied |-> FALSE]
    /\ vl_call = NoVolumeCall

\* time passes: the clock moves away from the last update, the threads sleep
VolumeTick ==
    /\ \/ vl_since <= UPDATE_INTERVAL
       \/ \E i \in 1..Len(vl_threads) : vl_threads[i] > 0
    /\ vl_since' = IF vl_since <= UPDATE_INTERVAL THEN vl_since + TickMillis
                   ELSE vl_since
    /\ vl_threads' = [i \in 1..Len(vl_threads) |->
                        IF vl_threads[i] > TickMillis THEN vl_threads[i] - TickMillis
                        ELSE 0]
    /\ UNCHANGED <<vl_scheduled, vl_data, vl_request_rx, vl_internal_rx, vl_users,
                   vl_server, vl_call, ids_vars, audio_vars,
                   runtime_vars>>

\* a module sends Request::SetSinkVolume on the service's channel
VolumeUserRequest ==
    /\ vl_users > 0
    /\ Len(vl_request_rx) < VolumeCap
    /\ \E volume \in VolumeLevels :
            vl_request_rx' = Append(vl_request_rx, SetSinkVolume(volume, FALSE))
    /\ vl_users' = vl_users - 1
    /\ UNCHANGED <<vl_since, vl_scheduled, vl_data, vl_threads, vl_internal_rx,
                   vl_server, vl_call, ids_vars, audio_vars,
                   runtime_vars>>

\* run(), `request = request_rx.recv_async()`: a Request is relayed to the
\* request thread
VolumeRelay ==
    /\ vl_request_rx # <<>>
    /\ Len(vl_internal_rx) < VolumeCap
    /\ vl_internal_rx' = Append(vl_internal_rx, Head(vl_request_rx))
    /\ vl_request_rx' = Tail(vl_request_rx)
    /\ UNCHANGED <<vl_since, vl_scheduled, vl_data, vl_threads, vl_users,
                   vl_server, vl_call, ids_vars, audio_vars,
                   runtime_vars>>

\* the request thread of mainloop(): `request_rx.recv()` gives a
\* SetSinkVolume; set_sink_volume stores its data and decides; on true the
\* volume is set on the server
VolumeProcess ==
    /\ vl_internal_rx # <<>>
    /\ LET received == Head(vl_internal_rx)
           result == set_sink_volume(vl_scheduled, vl_since)
       IN  /\ vl_data' = Some(received.volume)
           /\ IF result.spawned
              THEN /\ Len(vl_threads) < MaxThreads
                   /\ vl_threads' = Append(vl_threads, result.wait_time)
              ELSE UNCHANGED vl_threads
           /\ vl_scheduled' = result.scheduled
           /\ vl_since' = IF result.updated THEN 0 ELSE vl_since
           /\ vl_server' = IF result.ret
                           THEN [volume |-> received.volume, applied |-> TRUE]
                           ELSE vl_server
           /\ vl_call' = [step |-> "called", delta |-> vl_since, ret |-> result.ret,
                          spawned |-> result.spawned,
                          applied_before |-> vl_server.applied]
    /\ vl_internal_rx' = Tail(vl_internal_rx)
    /\ UNCHANGED <<vl_request_rx, vl_users, ids_vars, audio_vars,
                   runtime_vars>>

\* a spawned thread wakes: it sends a SetSinkVolume of the data stored by
\* then on the service's channel, and ends
VolumeThreadSend ==
    /\ \E i \in 1..Len(vl_threads) :
        /\ vl_threads[i] = 0
        /\ vl_threads' = [j \in 1..(Len(vl_threads) - 1) |->
                            IF j < i THEN vl_threads[j] ELSE vl_threads[j + 1]]
    /\ IF vl_data.some
       THEN /\ Len(vl_request_rx) < VolumeCap
            /\ vl_request_rx' = Append(vl_request_rx, SetSinkVolume(vl_data.v, TRUE))
       ELSE UNCHANGED vl_request_rx
    /\ UNCHANGED <<vl_since, vl_scheduled, vl_data, vl_internal_rx, vl_users,
                   vl_server, vl_call, ids_vars, audio_vars,
                   runtime_vars>>

VolumeNext ==
    \/ VolumeTick \/ VolumeUserRequest \/ VolumeRelay \/ VolumeProcess
    \/ VolumeThreadSend

-----------------------------------------------------------------------------
(* ModuleIds, src/services/mod.rs *)

\* the event types of a service that modules register for
EventTypes == {"SinksChanged", "CardsChanged"}

\* the `events: Vec<S::EventType>` of a call: up to two events in some order
EventLists ==
    {<<>>} \cup {<<e>> : e \in EventTypes} \cup {<<e, f>> : e \in EventTypes, f \in EventTypes}

\* ModuleIds::new
ModuleIds_new == [events_to_ids |-> EmptyMap, ids_to_events |-> EmptyMap]

RECURSIVE insert_id(_, _, _, _)
\* register_module, `for event in &events`: the id joins the id set of
\* each event, a new set where the event has none
insert_id(events_to_ids, id, events, i) ==
    IF i > Len(events) THEN events_to_ids
    ELSE LET event == events[i]
             ids == IF event \in DOMAIN events_to_ids
                    THEN events_to_ids[event] \cup {id}
                    ELSE {id}
         IN  insert_id(MapInsert(events_to_ids, event, ids), id, events, i + 1)

\* ModuleIds::register_module: the event set recorded for the id is replaced
register_module(self, id, events) ==
    [events_to_ids |-> insert_id(self.events_to_ids, id, events, 1),
     ids_to_events |-> MapInsert(self.ids_to_events, id,
                                 {events[i] : i \in 1..Len(events)})]

\* ModuleIds::unregister_module: the id leaves the id sets of the events
\* recorded for it
unregister_module(self, id) ==
    IF id \notin DOMAIN self.ids_to_events THEN self
    ELSE [events_to_ids |->
            [event \in DOMAIN self.events_to_ids |->
                IF event \in self.ids_to_events[id]
                THEN self.events_to_ids[event] \ {id}
                ELSE self.events_to_ids[event]],
          ids_to_events |-> MapRemove(self.ids_to_events, id)]

ModuleIdsIdle ==
    /\ mi_events_to_ids = EmptyMap
    /\ mi_ids_to_events = EmptyMap
    /\ mi_calls = 0

\* run(), ServiceRequest::SubscribeModule { id, data }: register_module
ModuleIdsRegister ==
    /\ mi_calls < MaxIdCalls
    /\ \E id \in 0..MaxModuleId, events \in EventLists :
        LET self == [events_to_ids |-> mi_events_to_ids,
                     ids_to_events |-> mi_ids_to_events]
            after == register_module(self, id, events)
        IN  /\ mi_events_to_ids' = after.events_to_ids
            /\ mi_ids_to_events' = after.ids_to_events
    /\ mi_calls' = mi_calls + 1
    /\ UNCHANGED <<volume_vars, audio_vars, runtime_vars>>

\* unregister_module is called for a module id
ModuleIdsUnregister ==
    /\ mi_calls < MaxIdCalls
    /\ \E id \in 0..MaxModuleId :
        LET self == [events_to_ids |-> mi_events_to_ids,
                     ids_to_events |-> mi_ids_to_events]
            after == unregister_module(self, id)
        IN  /\ mi_events_to_ids' = after.events_to_ids
            /\ mi_ids_to_events' = after.ids_to_events
    /\ mi_calls' = mi_calls + 1
    /\ UNCHANGED <<volume_vars, audio_vars, runtime_vars>>

ModuleIdsNext == ModuleIdsRegister \/ ModuleIdsUnregister

-----------------------------------------------------------------------------
(* AudioState, src/services/audio/state.rs *)

\* messages.rs: a Source has a card index like a Sink
AudioSource(source, card_index) ==
    [name |-> source.name, description |-> source.description,
     volume |-> source.volume, card_index |-> card_index]

\* <AudioState as ServiceState>::init
AudioState_init ==
    [sinks |-> <<>>, default_sink |-> None, sink_profiles |-> <<>>,
     sink_default_profile |-> None,
     sources |-> <<>>, default_source |-> None, source_profiles |-> <<>>,
     source_default_profile |-> None, cards |-> <<>>]

\* AudioState::get_default_sink and get_default_source: the first device of
\* the list with the default name
default_device(list, default) ==
    IF default.some
    THEN LET i == position_by_name(list, default.v)
         IN  IF i = 0 THEN None ELSE Some(list[i])
    ELSE None

\* `for card in &self.cards { if index == card.index { .. return } }`: the
\* first card with the index of the device, None if the device is None,
\* has no card index, or no card has it
card_of(cards, device) ==
    IF ~device.some THEN None
    ELSE IF ~device.v.card_index.some THEN None
    ELSE LET at == cards_with_index(cards, device.v.card_index.v)
         IN  IF at = {} THEN None
             ELSE Some(cards[CHOOSE i \in at : \A j \in at : i <= j])

\* `card.profiles.iter().map(|profile| profile.description.clone())`
profile_descriptions(card) ==
    [i \in 1..Len(card.profiles) |-> card.profiles[i].description]

\* `card.selected_profile.clone().map(|profile| profile.description)`
selected_description(card) ==
    IF card.selected_profile.some THEN Some(card.selected_profile.v.description)
    ELSE None

\* AudioState::update_sink_profile: the state after, and the events returned
update_sink_profile(self) ==
    LET card == card_of(self.cards, default_device(self.sinks, self.default_sink))
    IN  IF ~card.some THEN [state |-> self, events |-> <<>>]
        ELSE [state |-> [self EXCEPT
                            !.sink_profiles = profile_descriptions(card.v),
                            !.sink_default_profile = selected_description(card.v)],
              events |-> <<[type |-> "SinkProfileChanged",
                            profile_name |-> selected_description(card.v)]>>]

\* AudioState::update_source_profile
update_source_profile(self) ==
    LET card == card_of(self.cards, default_device(self.sources, self.default_source))
    IN  IF ~card.some THEN [state |-> self, events |-> <<>>]
        ELSE [state |-> [self EXCEPT
                            !.source_profiles = profile_descriptions(card.v),
                            !.source_default_profile = selected_description(card.v)],
              events |-> <<[type |-> "SourceProfileChanged",
                            profile_name |-> selected_description(card.v)]>>]

\* <AudioState as ServiceState>::update: the state after the event, and the
\* events returned, the event itself first
AudioState_update(self, event) ==
    LET after ==
            CASE event.type = "SinksChanged" ->
                    [state |-> [self EXCEPT !.sinks = event.sinks], events |-> <<>>]
              [] event.type = "DefaultSinkChanged" ->
                    update_sink_profile([self EXCEPT !.default_sink = event.name])
              [] event.type = "SourcesChanged" ->
                    [state |-> [self EXCEPT !.sources = event.sources], events |-> <<>>]
              [] event.type = "DefaultSourceChanged" ->
                    update_source_profile([self EXCEPT !.default_source = event.name])
              [] event.type = "CardsChanged" ->
                    LET sink == update_sink_profile([self EXCEPT !.cards = event.cards])
                        source == update_source_profile(sink.state)
                    IN  [state |-> source.state, events |-> sink.events \o source.events]
              [] OTHER -> [state |-> self, events |-> <<>>]
    IN  [state |-> after.state, events |-> <<event>> \o after.events]

\* the event of a type that the mainloop sends for the devices
audio_event(type, devices) ==
    CASE type = "SinksChanged" -> [type |-> type, sinks |-> devices.sinks]
      [] type = "DefaultSinkChanged" -> [type |-> type, name |-> devices.default_sink]
      [] type = "SourcesChanged" ->
            [type |-> type,
             sources |-> <<AudioSource(devices.sources[1], Some(97)),
                           AudioSource(devices.sources[2], Some(117))>>]
      [] type = "DefaultSourceChanged" ->
            [type |-> type, name |-> devices.default_source]
      [] OTHER -> [type |-> type, cards |-> devices.cards]

AudioIdle ==
    /\ au_devices = Devices("sink_1", "source_1", FALSE, FALSE, PULSE_MAX_VOLUME,
                            PULSE_MAX_VOLUME, "1")
    /\ au_left = {}
    /\ au_state = AudioState_init
    /\ au_events = <<>>

\* AudioState::init(), before the first event of the mainloop
AudioInputs ==
    /\ au_devices \in StartDevices
    /\ au_left = StartEvents
    /\ au_state = AudioState_init
    /\ au_events = <<>>

\* run(), `event = internal_event_rx.recv_async()`: state.update(event), for
\* each of the five events of the mainloop
AudioSinksChanged ==
    /\ "SinksChanged" \in au_left
    /\ au_left' = au_left \ {"SinksChanged"}
    /\ \E after \in {AudioState_update(au_state, audio_event("SinksChanged", au_devices))} :
        /\ au_state' = after.state
        /\ au_events' = after.events
    /\ UNCHANGED <<au_devices, volume_vars, ids_vars, runtime_vars>>

AudioDefaultSinkChanged ==
    /\ "DefaultSinkChanged" \in au_left
    /\ au_left' = au_left \ {"DefaultSinkChanged"}
    /\ \E after \in {AudioState_update(au_state, audio_event("DefaultSinkChanged", au_devices))} :
        /\ au_state' = after.state
        /\ au_events' = after.events
    /\ UNCHANGED <<au_devices, volume_vars, ids_vars, runtime_vars>>

AudioSourcesChanged ==
    /\ "SourcesChanged" \in au_left
    /\ au_left' = au_left \ {"SourcesChanged"}
    /\ \E after \in {AudioState_update(au_state, audio_event("SourcesChanged", au_devices))} :
        /\ au_state' = after.state
        /\ au_events' = after.events
    /\ UNCHANGED <<au_devices, volume_vars, ids_vars, runtime_vars>>

AudioDefaultSourceChanged ==
    /\ "DefaultSourceChanged" \in au_left
    /\ au_left' = au_left \ {"DefaultSourceChanged"}
    /\ \E after \in {AudioState_update(au_state, audio_event("DefaultSourceChanged", au_devices))} :
        /\ au_state' = after.state
        /\ au_events' = after.events
    /\ UNCHANGED <<au_devices, volume_vars, ids_vars, runtime_vars>>

AudioCardsChanged ==
    /\ "CardsChanged" \in au_left
    /\ au_left' = au_left \ {"CardsChanged"}
    /\ \E after \in {AudioState_update(au_state, audio_event("CardsChanged", au_devices))} :
        /\ au_state' = after.state
        /\ au_events' = after.events
    /\ UNCHANGED <<au_devices, volume_vars, ids_vars, runtime_vars>>

AudioNext ==
    \/ AudioSinksChanged \/ AudioDefaultSinkChanged \/ AudioSourcesChanged
    \/ AudioDefaultSourceChanged \/ AudioCardsChanged

\* no service is running
ServiceIdle == VolumeIdle /\ ModuleIdsIdle /\ AudioIdle

-----------------------------------------------------------------------------
(* Specifications *)

MainInit ==
    /\ pc = "start"
    /\ epoch = 0
    /\ host_modules = <<>>
    /\ load_idx = 0
    /\ cur = NoCur
    /\ reg_queue = <<>>
    /\ render_queue = <<>>
    /\ cur_render = NoRender
    /\ request_rx = <<>>
    /\ msg = NoMsg
    /\ chan = <<>>
    /\ chan_open = TRUE
    /\ app_wasm = NoWasm
    /\ app_surfaces = {}
    /\ app_pending = NoMsg
    /\ audio_requests = <<>>
    /\ handled = <<>>
    /\ last_call = NoCall
    /\ unrendered = {}

\* no record read is under way
ReadIdle ==
    /\ rd_len = 2 * SIZE_OF_RAW_ELEMENT /\ rd_ptr = 0 /\ rd_index = 0
    /\ rd_result = "none"

Init ==
    MainInit /\ LeaseInit /\ iced_counter = 1 /\ ReadIdle /\ TableIdle /\ ArenaIdle
        /\ CallbackIdle /\ SetupIdle /\ StartIdle /\ ServiceIdle

Next ==
    \/ RunStart \/ LoadModule \/ LoadSurface \/ LoadFinish \/ LoadCollect
    \/ SendRegister \/ RenderPop \/ RenderSurface \/ Recv \/ RecvDisconnected
    \/ RunCallback \/ Update
    \/ AppUpdate \/ UiCallback \/ AudioUpdate \/ AppUnblock \/ AppClose

ReadInit ==
    ReadInputs /\ LeaseInit /\ iced_counter = 1 /\ MainInit /\ TableIdle /\ ArenaIdle
        /\ CallbackIdle /\ SetupIdle /\ StartIdle /\ ServiceIdle

\* the runtime task and the UI thread
Spec == Init /\ [][Next]_vars

\* one lease table under lease and revoke calls
SpecLease == Init /\ [][LeaseNext]_vars

TableInit ==
    TableInputs /\ ReadIdle /\ LeaseInit /\ iced_counter = 1 /\ MainInit /\ ArenaIdle
        /\ CallbackIdle /\ SetupIdle /\ StartIdle /\ ServiceIdle

ArenaInit ==
    ArenaInputs /\ ReadIdle /\ TableIdle /\ LeaseInit /\ iced_counter = 1 /\ MainInit
        /\ CallbackIdle /\ SetupIdle /\ StartIdle /\ ServiceIdle

CallbackInit ==
    CallbackIdle /\ SetupIdle /\ StartIdle /\ ServiceIdle /\ ArenaIdle /\ ReadIdle /\ TableIdle /\ LeaseInit /\ iced_counter = 1
        /\ MainInit

SetupInit ==
    SetupIdle /\ StartIdle /\ ServiceIdle /\ CallbackIdle /\ ArenaIdle /\ ReadIdle /\ TableIdle /\ LeaseInit
        /\ iced_counter = 1 /\ MainInit

StartInit ==
    StartInputs /\ ServiceIdle /\ SetupIdle /\ CallbackIdle /\ ArenaIdle /\ ReadIdle /\ TableIdle
        /\ LeaseInit /\ iced_counter = 1 /\ MainInit

RuntimeIdle ==
    StartIdle /\ SetupIdle /\ CallbackIdle /\ ArenaIdle /\ ReadIdle /\ TableIdle
        /\ LeaseInit /\ iced_counter = 1 /\ MainInit

ModuleIdsInit == ModuleIdsIdle /\ VolumeIdle /\ AudioIdle /\ RuntimeIdle

\* one ModuleIds under calls of register_module and unregister_module
SpecModuleIds == ModuleIdsInit /\ [][ModuleIdsNext]_vars

AudioInit == AudioInputs /\ VolumeIdle /\ ModuleIdsIdle /\ RuntimeIdle

\* one AudioState under the five events of the mainloop, in every order
SpecAudioState == AudioInit /\ [][AudioNext]_vars

VolumeInit ==
    VolumeInputs /\ ModuleIdsIdle /\ AudioIdle /\ StartIdle /\ SetupIdle /\ CallbackIdle /\ ArenaIdle /\ ReadIdle
        /\ TableIdle /\ LeaseInit /\ iced_counter = 1 /\ MainInit

\* the sink volume requests of the audio service, at any pace
SpecVolume == VolumeInit /\ [][VolumeNext]_vars

\* the same, where time passes and every thread and loop that can take a
\* step takes it in the end
SpecVolumeLive ==
    /\ VolumeInit /\ [][VolumeNext]_vars
    /\ WF_vars(VolumeTick) /\ WF_vars(VolumeRelay) /\ WF_vars(VolumeProcess)
    /\ WF_vars(VolumeThreadSend)

\* the audio widget under the five startup events in every order
SpecStart == StartInit /\ [][StartNext]_vars

\* the setup data of one guest under calls of setup and setup_cleanup
SpecSetup == SetupInit /\ [][SetupNext]_vars

\* the callbacks of one module, from the trees the UI shows to the guest
SpecCallback == CallbackInit /\ [][CallbackNext]_vars

\* one view tree, for every tree of WidgetTrees
SpecArena == ArenaInit /\ [][ArenaNext]_vars

\* one subscription table, for every table of up to MaxEntries entries
SpecTable == TableInit /\ [][TableNext]_vars

\* one record read, for every memory length, table pointer and index tried
SpecRead == ReadInit /\ [][ReadNext]_vars

-----------------------------------------------------------------------------
(* Properties of the record read, under SpecRead *)

\* C4: a bounds-checked read of `size` bytes at `offset` fails exactly when
\* offset >= len(memory) or offset + size > len(memory); a record that ends
\* exactly at the last byte of memory is read.
C4_ReadFailsExactlyWhenOutOfBounds ==
    LET offset == rd_ptr + SIZE_OF_RAW_ELEMENT * rd_index
        size == SIZE_OF_RAW_ELEMENT
    IN  rd_result # "none" =>
            (rd_result # "Ok" <=> (offset >= rd_len \/ offset + size > rd_len))

-----------------------------------------------------------------------------
(* Properties of the lease table, under SpecLease *)

\* C5: after any sequence of lease and revoke operations, lease never
\* returns a non-zero value that an earlier lease returned, revoked since or
\* not: the value a lease has just returned is none of those before it.
C5_LeaseNeverReissues ==
    LET n == Len(lease_log)
    IN  n > 0 => \A i \in 1..(n - 1) : lease_log[i] # lease_log[n]

\* a lease has returned a value after an earlier value's lease was revoked
C5_LeaseAfterRevoke ==
    /\ lease_op.op = "lease"
    /\ lease_op.ret # 0
    /\ \E i \in 1..(Len(lease_log) - 1) : ~has_lease(wasm_id, lease_log[i])

\* C6: from a fresh table, lease does not return 0 before the counter has
\* reached its maximum; once it has, a lease returns 0, creates no mapping in
\* either direction, mints no handle and leaves the counter as it is.
C6_LeaseExhaustion ==
    [][lease_op'.op = "lease" =>
        IF wasm_id.current_id < U8_MAX
        THEN /\ lease_op'.ret # 0
             /\ has_lease(wasm_id', lease_op'.ret)
        ELSE /\ lease_op'.ret = 0
             /\ wasm_id' = wasm_id
             /\ iced_counter' = iced_counter]_vars

\* a lease was asked of the exhausted table
C6_LeasedPastMaximum ==
    /\ wasm_id.current_id = U8_MAX
    /\ lease_op.op = "lease"
    /\ lease_op.ret = 0
    /\ Len(lease_log) = U8_MAX - 1

\* C7: after revoke(id) the table holds no mapping for the id in either
\* direction: the id has no lease and no handle translates back to it, so
\* the forward and the reverse map are exact inverses of each other.
C7_MapsAreInverses ==
    /\ \A id \in DOMAIN wasm_id.leased_ids :
            get_id(wasm_id, wasm_id.leased_ids[id]) = id
    /\ \A iced_id \in DOMAIN wasm_id.iced_id_lut :
            get_iced_id(wasm_id, wasm_id.iced_id_lut[iced_id]) = iced_id
    /\ (lease_op.op = "revoke" /\ lease_op.ret = 1) =>
            /\ ~has_lease(wasm_id, lease_op.arg)
            /\ \A iced_id \in DOMAIN wasm_id.iced_id_lut :
                    get_id(wasm_id, iced_id) # lease_op.arg

-----------------------------------------------------------------------------
(* Properties of the runtime task and the UI thread, under Spec *)

\* C1: when a guest call made while handling a callback request
\* (run_callback or update) fails, every module stays loaded with its state
\* and the dispatch loop goes on to its next render pass and wait; no module
\* is evicted or instantiated again.
C1_FailedCallKeepsModules ==
    [][(last_call.ok /\ ~last_call'.ok) =>
            /\ host_modules' = host_modules
            /\ pc' \in {"render", "await"}
            /\ epoch' = epoch]_vars

\* C2: when a discovered module fails to load, the others load, and every
\* module id in the render queue, of the running render or of the request
\* being handled resolves to the loaded module that was given that id at
\* discovery.
C2_IdsResolveToTheirModule ==
    LET resolves(module_id) ==
            /\ in_modules(host_modules, module_id)
            /\ module_at(host_modules, module_id).id = module_id
    IN  /\ pc \in {"render", "render_surface", "await", "run_callback", "update"} =>
                \A i \in 1..Len(render_queue) : resolves(render_queue[i])
        /\ pc = "render_surface" => resolves(cur_render.module_id)
        /\ pc \in {"run_callback", "update"} => resolves(msg.module_id)

\* C3: an offset, index or range of a guest's render output that falls
\* outside its linear memory fails that one render call: while the event
\* channel is open, a step of the surface loop does not panic and leaves
\* every module loaded.
C3_OutOfRangeIsPerRenderError ==
    [][(pc = "render_surface" /\ chan_open) =>
            /\ pc' \in {"render_surface", "render"}
            /\ host_modules' = host_modules]_vars

\* C8: a surface id is added to a module's used set only when the request to
\* create its surface has gone out: never for a descriptor that was rejected
\* or a request that could not be sent.
C8_UsedOnlyAfterCreated ==
    [][(cur'.loading /\ Len(cur'.used_surface_ids) > Len(cur.used_surface_ids)) =>
            LET id == cur'.used_surface_ids[Len(cur'.used_surface_ids)]
            IN  chan' = Append(chan, CreateLayerSurface(get_iced_id(cur.wasm_id, id)))]_vars

\* C9: one callback request is handled in this order: the host surface
\* handle is translated to the module's surface id through its lease table,
\* run_callback is called with it, update is called with the message id and
\* payload run_callback returned, and the module id is appended to the render
\* queue; the module is rendered before the next request is taken.
C9_CallbackStepsInOrder ==
    /\ \A i \in 1..Len(handled) :
        LET h == handled[i]
        IN  /\ h.step = "translate" =>
                /\ i = 1
                /\ in_modules(host_modules, h.module) =>
                        h.to = get_id(module_at(host_modules, h.module).wasm_id, h.from)
            /\ h.step = "run_callback" =>
                /\ i > 1
                /\ handled[i - 1].step = "translate"
                /\ handled[i - 1].module = h.module
                /\ handled[i - 1].to # 0
                /\ h.args[1] = handled[i - 1].to
            /\ h.step = "update" =>
                /\ i > 1
                /\ handled[i - 1].step = "run_callback"
                /\ handled[i - 1].module = h.module
                /\ h.args = <<unpack_callback_data(handled[i - 1].ret).message_id,
                              unpack_callback_data(handled[i - 1].ret).data_ptr>>
                /\ i < Len(handled)
                /\ handled[i + 1] = [step |-> "enqueue", module |-> h.module]
            /\ h.step = "enqueue" =>
                /\ i > 1
                /\ handled[i - 1].step = "update"
                /\ handled[i - 1].module = h.module
                /\ pc = "await" =>
                        \E j \in (i + 1)..Len(handled) :
                            handled[j] = [step |-> "render", module |-> h.module]
    /\ pc = "update" =>
            /\ handled # <<>>
            /\ handled[Len(handled)].step = "run_callback"
    /\ pc = "run_callback" => Len(handled) = 1 /\ handled[1].step = "translate"

\* a callback request has gone through every step, its handle and the
\* module's surface id being different numbers, and the loop waits again
C9_CallbackHandled ==
    /\ pc = "await"
    /\ Len(handled) >= 5
    /\ handled[1].step = "translate"
    /\ handled[1].from # handled[1].to
    /\ handled[2].step = "run_callback"
    /\ handled[3].step = "update"
    /\ handled[3].args = <<1, 64>>
    /\ handled[4].step = "enqueue"
    /\ handled[5].step = "render"

\* C10: whenever the dispatch loop waits for a request the render queue is
\* empty, and every module id that was queued has been taken off the queue
\* for its render.
C10_QueueDrainedBeforeWait ==
    pc = "await" => (render_queue = <<>> /\ unrendered = {})

\* the loop waits after a render pass that took two modules off the queue
C10_WaitingAfterRenderPass ==
    /\ pc = "await"
    /\ Len(host_modules) = 2
    /\ Len(handled) = 2
    /\ handled[1].step = "render"
    /\ handled[2].step = "render"

\* C11: every service-data request the dispatch loop receives is forwarded
\* into a resident module through a guest entry point: the step that takes
\* it off the channel leaves the loop with it as the message of a guest call.
C11_ServiceDataForwarded ==
    [][(/\ pc = "await"
        /\ request_rx # <<>>
        /\ Head(request_rx).type = "ServiceData"
        /\ request_rx' = Tail(request_rx)) =>
            (msg' # NoMsg /\ pc' # "render")]_vars

\* C12: for every subscription entry of a loaded module a subscribe request
\* with the module's id reaches the matching service: when the UI thread
\* handles the RegisterModuleToService event it sends SubscribeModule on the
\* service's channel.
C12_SubscriptionForwarded ==
    [][(/\ chan # <<>>
        /\ Head(chan).type = "RegisterModuleToService"
        /\ chan' = Tail(chan)
        /\ app_wasm.some) =>
            audio_requests' = Append(audio_requests,
                SubscribeModule(Head(chan).module_id, Head(chan).register))]_vars

\* C13: the dispatch loop suspends on a channel only at the receive of the
\* next request: whenever the surface loop has a surface left to render, the
\* event channel has room for the ModViewData it may emit.
C13_EmitNeverBlocks ==
    (/\ pc = "render_surface"
     /\ chan_open
     /\ cur_render.k <= Len(cur_render.surface_ids)) => Len(chan) < ChanCap

-----------------------------------------------------------------------------
(* Properties of the subscription table, under SpecTable *)

\* the timers of a table
Timers(registers) == {i \in 1..Len(registers) : registers[i].type = "Interval"}
\* the property watches of a table
Watches(registers) == {i \in 1..Len(registers) : registers[i].type = "PulseAudio"}

\* C14: for every table the encoder accepts, decoding the encoded bytes
\* gives the same entries in the same order, with the same bitmask,
\* interval and offset values.
C14_TableRoundTrip ==
    (tb_tamper = "none" /\ tb_result.kind # "none") =>
        tb_result = Success(tb_registers)

\* C15: the encoder rejects a table exactly when a tag id that does not
\* allow repetition occurs more than once: any number of timers with at
\* most one property watch is accepted, and a rejected table gives no bytes.
\* The registers! macro rejects the same tables when the module is built.
C15_RejectsExactlyDuplicates ==
    tb_out.kind # "none" =>
        /\ tb_out.kind = "Panic" <=> Cardinality(Watches(tb_registers)) > 1
        /\ tb_out.kind = "Ok" <=> Cardinality(Watches(tb_registers)) <= 1
        /\ tb_out.kind = "Panic" => tb_out.bytes = <<>>
        /\ check_duplicates(tb_registers) <=> tb_out.kind = "Panic"

\* a table with two property watches and a timer was rejected
C15_TableRejected ==
    /\ tb_out.kind = "Panic"
    /\ Cardinality(Watches(tb_registers)) = 2
    /\ Timers(tb_registers) # {}

\* C16: a table with a duplicated non-repeatable tag is a validation
\* failure the encoder returns as an error; the guest never crashes on it.
C16_DuplicateIsValidationError ==
    tb_out.kind # "none" => tb_out.kind \in {"Ok", "Err"}

\* the bytes handed to the decoder hold, among the entries the header
\* counts, one whose tag id is not a known id
HasUnknownId(data) ==
    /\ Len(data) >= TABLE_HEADER_SIZE
    /\ LET n == from_be_bytes(slice(data, 6, 8))
       IN  /\ TABLE_HEADER_SIZE + TABLE_ENTRY_SIZE * n <= Len(data)
           /\ \E k \in 0..(n - 1) :
                from_be_bytes(slice(data, TABLE_HEADER_SIZE + TABLE_ENTRY_SIZE * k,
                                    TABLE_HEADER_SIZE + TABLE_ENTRY_SIZE * k + 2))
                    \notin {PULSEAUDIO_ID, INTERVAL_ID}

\* C17: decoding a table with an entry whose tag id is not a known id fails
\* for the whole table, and the module that gave the table is not kept.
C17_UnknownIdFailsTable ==
    (tb_result.kind # "none" /\ HasUnknownId(tb_data)) =>
        (tb_result.kind = "Err" /\ tb_result.node = <<>> /\ ~tb_kept)

\* a table of several entries, one of them with an unknown id, was decoded
C17_UnknownIdDecoded ==
    /\ tb_tamper = "unknown_id"
    /\ Len(tb_registers) >= 2
    /\ tb_result.kind = "Err"

\* C18: for every byte slice the decoder fails with an error or reads below
\* the length of the slice: a slice shorter than the header, a count whose
\* table ends past the slice and a timer whose extra data ends past the
\* slice are errors, and no read is out of bounds.
C18_DecodeStaysInBounds ==
    tb_result.kind # "none" =>
        /\ tb_result.kind \in {"Ok", "Err"}
        /\ Len(tb_data) < TABLE_HEADER_SIZE => tb_result.kind = "Err"
        /\ Len(tb_data) >= TABLE_HEADER_SIZE =>
            LET n == from_be_bytes(slice(tb_data, 6, 8))
                table_end == TABLE_HEADER_SIZE + TABLE_ENTRY_SIZE * n
                entry(k) == slice(tb_data, TABLE_HEADER_SIZE + TABLE_ENTRY_SIZE * k,
                                  TABLE_HEADER_SIZE + TABLE_ENTRY_SIZE * (k + 1))
            IN  /\ table_end > Len(tb_data) => tb_result.kind = "Err"
                /\ (/\ table_end <= Len(tb_data)
                    /\ \E k \in 0..(n - 1) :
                        /\ from_be_bytes(slice(entry(k), 0, 2)) = INTERVAL_ID
                        /\ table_end + from_be_bytes(slice(entry(k), 6, 10))
                                + INTERVAL_EXTRA_SIZE > Len(tb_data))
                    => tb_result.kind = "Err"

\* a table was cut inside the extra data of a timer, and decoded
C18_CutInsideExtraData ==
    /\ tb_tamper = "truncated"
    /\ Timers(tb_registers) # {}
    /\ Len(tb_data) > TABLE_HEADER_SIZE + TABLE_ENTRY_SIZE * Len(tb_registers)
    /\ tb_result.kind = "Err"

\* C19: a table of N entries, T of them timers, encodes to 16 + 16*N + 16*T
\* bytes, the size written in its header; a timer (1000 ms, offset 0)
\* followed by a property watch (bitmask 0b101) encodes to 64 bytes and
\* decodes to those two entries in that order.
C19_EncodedLength ==
    LET two == <<Interval(1000, 0), PulseAudio(5)>>
    IN  /\ tb_out.kind = "Ok" =>
            /\ Len(tb_out.bytes) = 16 + 16 * Len(tb_registers)
                                      + 16 * Cardinality(Timers(tb_registers))
            /\ from_be_bytes(slice(tb_out.bytes, 0, 4)) = Len(tb_out.bytes)
        /\ (tb_registers = two /\ tb_out.kind # "none") =>
            (tb_out.kind = "Ok" /\ Len(tb_out.bytes) = 64)
        /\ (tb_registers = two /\ tb_tamper = "none" /\ tb_result.kind # "none") =>
            tb_result = Success(two)

\* the table of the timer and the property watch was encoded and decoded
C19_TimerAndWatchDecoded ==
    /\ tb_registers = <<Interval(1000, 0), PulseAudio(5)>>
    /\ tb_tamper = "none"
    /\ tb_result.kind = "Ok"

-----------------------------------------------------------------------------
(* Properties of the view tree, under SpecArena *)

RECURSIVE same_tree(_, _)
\* the decoded node has the tag of the widget, as many children, and the
\* same text and slider values, at every position
same_tree(widget, node) ==
    /\ node.tag = widget.tag
    /\ CASE widget.tag = "Text" -> node.content = widget.content
         [] widget.tag = "Slider" ->
                /\ node.number_type = widget.number_type
                /\ node.range = <<to_u64_bits(widget.number_type, widget.range[1]),
                                  to_u64_bits(widget.number_type, widget.range[2])>>
                /\ node.value = to_u64_bits(widget.number_type, widget.value)
         [] widget.tag = "Button" -> same_tree(widget.inner, node.inner)
         [] OTHER ->
                /\ Len(node.children) = Len(widget.children)
                /\ \A k \in 1..Len(widget.children) :
                        same_tree(widget.children[k], node.children[k])

\* C20: for every tree of Row, Column, Button, Text and Slider nodes,
\* decoding the arena the tree was encoded into gives a tree with the same
\* tag at every position, the same number of children at every container
\* and the same text and slider values.
C20_ArenaRoundTrip ==
    (ar_result.kind # "none" /\ ~has_cycle(ar_view) /\ ~has_childless_button(ar_view)) =>
        (ar_result.kind = "Ok" /\ same_tree(ar_widget, ar_result.node))

\* the child indexes an element of the arena stores (none for an element
\* without children)
stored_children(arena, element) ==
    IF element.child_count = 0 THEN <<>> ELSE arena.children[element.children_index + 1]

-----------------------------------------------------------------------------
(* Properties of the callbacks, under SpecCallback *)

\* the call of run_callback under way is of callback id 0, of an id past
\* the callback list of the surface, or of a surface with no callback list
CallbackMiss ==
    /\ cb_call.step # "none"
    /\ \/ cb_call.request.callback_id = 0
       \/ cb_call.request.surface_id \notin DOMAIN cb_call.before.map
       \/ cb_call.request.callback_id >
            Len(cb_call.before.map[cb_call.request.surface_id])

\* C22: run_callback with callback id 0, with an id greater than the number
\* of callbacks of the surface, or for a surface without a callback list
\* returns the pair (0, 0), calls no callback and changes no state of the
\* module (nor does the update the host makes of the pair).
C22_MissReturnsZero ==
    CallbackMiss =>
        /\ cb_call.ret = 0
        /\ cb_call.message = [message_id |-> 0, data_ptr |-> 0]
        /\ cb_call.index = 0
        /\ cb_call.after = cb_call.before

\* an id past the callback list of a surface that has one was called, and
\* the host has made the update of what it returned
C22_CalledPastTheList ==
    /\ cb_call.step = "updated"
    /\ cb_call.request.surface_id \in DOMAIN cb_call.before.map
    /\ cb_call.request.callback_id = 3
    /\ Len(cb_call.before.map[cb_call.request.surface_id]) = 2

\* values of a half of the packed u64, with the ends of its range
HalfSamples == {0, 1, 2, 64, HalfRange - 2, HalfRange - 1}

\* C23: for all message ids m and payloads p of one half each, the host's
\* unpacking of the guest's (m << 32) | p gives (m, p): the message id from
\* the high half, the payload from the low half.
C23_UnpackInvertsPack ==
    /\ \A m \in HalfSamples : \A p \in HalfSamples :
            unpack_callback_data(pack_return_data(m, p)) =
                [message_id |-> m, data_ptr |-> p]
    /\ cb_call.step # "none" =>
            cb_call.message = [message_id |-> cb_call.data[1],
                               data_ptr |-> cb_call.data[2]]

\* a slider callback returned its message id with a Box at the top of the
\* addresses
C23_SliderReturnedPair ==
    /\ cb_call.step = "called"
    /\ cb_call.data = <<3, HalfRange - 1>>

\* C28: a callback request is dispatched against the callback list of the
\* render whose tree it was sent from: a request from a tree that a newer
\* render of the surface has replaced calls no callback of the newer render.
C28_DispatchedAgainstOwnRender ==
    (/\ cb_call.step # "none"
     /\ cb_call.request.render # 0
     /\ cb_call.index # 0) => cb_call.table_render = cb_call.request.render

-----------------------------------------------------------------------------
(* Properties of the setup data, under SpecSetup *)

\* C24: setup_cleanup is idempotent: with nothing pending it does nothing,
\* and over any sequence of setup and setup_cleanup calls every box a setup
\* leaked is freed exactly once: none twice, all of them when nothing is
\* pending, and all but the five of the last setup while one is pending.
C24_TeardownFreesExactlyOnce ==
    /\ \A a \in DOMAIN su_frees : su_frees[a] = 1
    /\ DOMAIN su_heap \cap DOMAIN su_frees = {}
    /\ DOMAIN su_heap \cup DOMAIN su_frees = 1..(su_next - 1)
    /\ su_ptr = NullPtr => su_heap = EmptyMap
    /\ su_ptr # NullPtr =>
            /\ su_ptr \in DOMAIN su_heap
            /\ DOMAIN su_heap =
                   {su_ptr, su_heap[su_ptr].data_ptr, su_heap[su_ptr].func_ptr,
                    su_heap[su_ptr].layer_surfaces_ptr,
                    su_heap[su_ptr].registers_bytes_ptr}
    /\ (su_op.fn = "setup_cleanup" /\ ~su_op.pending) =>
            su_op.freed = {} /\ su_op.unchanged

-----------------------------------------------------------------------------
(* Properties of the audio widget at startup, under SpecStart *)

\* the default sink, the default source and the card of the default sink
DefaultSinkOf(devices) ==
    devices.sinks[position_by_name(devices.sinks, devices.default_sink.v)]
DefaultSourceOf(devices) ==
    devices.sources[position_by_name(devices.sources, devices.default_source.v)]
DefaultCardOf(devices) ==
    devices.cards[CHOOSE i \in 1..Len(devices.cards) :
                      devices.cards[i].index = DefaultSinkOf(devices).card_index.v]

\* C25: in whatever order the five startup events are delivered, the app
\* ends with the default sink and source set, the selected sink and source
\* the descriptions of the default devices, the selected sink profile that
\* of the default sink's card, and the sink volume, the source volume and
\* the sink mute those of the default devices.
C25_StartOrderIndependent ==
    st_left = {} /\ st_app # AppDefault =>
        /\ st_app.default_sink = st_devices.default_sink
        /\ st_app.default_source = st_devices.default_source
        /\ st_app.ui_selected_sink = Some(DefaultSinkOf(st_devices).description)
        /\ st_app.selected_source = Some(DefaultSourceOf(st_devices).description)
        /\ st_app.ui_sink_selected_profile =
               Some(DefaultCardOf(st_devices).selected_profile.v.description)
        /\ st_app.ui_sink_volume = volume_percent(DefaultSinkOf(st_devices).volume)
        /\ st_app.source_volume = volume_percent(DefaultSourceOf(st_devices).volume)
        /\ st_app.ui_sink_mute = DefaultSinkOf(st_devices).mute

-----------------------------------------------------------------------------
(* Properties of the host functions, under Spec *)

\* the step in which a guest calls get_unique_id with a value no IdType has
UnknownIdTypeCalled ==
    /\ lease_op' # lease_op
    /\ lease_op'.op = "get_unique_id"
    /\ IdType_try_from(lease_op'.arg).kind = "Err"

\* C26: a guest that calls get_unique_id with an unknown id type gets a
\* failure for that call only: the host does not panic, and the modules
\* loaded so far stay loaded and the load goes on.
C26_UnknownIdTypeRecoverable ==
    [][UnknownIdTypeCalled =>
            /\ pc' # "panicked"
            /\ host_modules' = host_modules]_vars

\* C27: in one drain of the render queue the view function of a queued
\* module is called once for each surface the module uses: the loop goes
\* through the module's used surface ids, one call each, and no id is in
\* that list twice.
C27_ViewOncePerUsedSurface ==
    LET is_set(ids) == \A i, j \in 1..Len(ids) : ids[i] = ids[j] => i = j
    IN  /\ \A m \in 1..Len(host_modules) : is_set(host_modules[m].used_surface_ids)
        /\ pc = "render_surface" =>
                /\ cur_render.surface_ids =
                       module_at(host_modules, cur_render.module_id).used_surface_ids
                /\ cur_render.k \in 1..(Len(cur_render.surface_ids) + 1)
                /\ is_set(cur_render.surface_ids)

\* the render loop is at the send of a ModViewData, for a surface whose id
\* translates, and the event channel is full
TaskBlockedSending ==
    /\ pc = "render_surface"
    /\ chan_open
    /\ cur_render.k <= Len(cur_render.surface_ids)
    /\ get_iced_id(module_at(host_modules, cur_render.module_id).wasm_id,
                   cur_render.surface_ids[cur_render.k]) # 0
    /\ Len(chan) = ChanCap

\* the UI thread is in `state.channel.send(request)` and the request channel
\* is full
UiBlockedSending ==
    /\ app_pending # NoMsg
    /\ connected
    /\ Len(request_rx) = ReqCap

\* C29: the UI thread and the dispatch loop never block each other: in no
\* reachable state is the UI thread blocked sending into the full request
\* channel while the dispatch loop is blocked sending an event into the full
\* event channel.
C29_NoMutualBlocking == ~(TaskBlockedSending /\ UiBlockedSending)

-----------------------------------------------------------------------------
(* Properties of the decoder on malformed arenas, under SpecArena *)

\* C30: the decoding of an arena ends for every arena content: one in which
\* an element lists itself or an ancestor as a child gives the failure of
\* that render, an Err of get_element_tree, and no recursion without end.
C30_CyclicArenaIsRenderError ==
    (has_cycle(ar_view) /\ ar_result.kind # "none") => ar_result.kind = "Err"

RECURSIVE buttons_decoded(_, _, _)
\* at every Button of the widget tree the decoded node is a Button, its
\* inner node is the decoding of the Button's child, and its callback id is
\* the one the element was given: 0, or the place of the callback in the list
buttons_decoded(callbacks, widget, node) ==
    CASE widget.tag = "Button" ->
            /\ node.tag = "Button"
            /\ same_tree(widget.inner, node.inner)
            /\ IF widget.callback = NoCallback
               THEN node.callback_id = 0
               ELSE /\ node.callback_id \in 1..Len(callbacks)
                    /\ callbacks[node.callback_id] = CallbackButton(widget.callback)
            /\ buttons_decoded(callbacks, widget.inner, node.inner)
      [] widget.tag \in {"Row", "Column"} ->
            /\ node.tag = widget.tag
            /\ \A k \in 1..Len(widget.children) :
                    k <= Len(node.children) =>
                        buttons_decoded(callbacks, widget.children[k], node.children[k])
      [] OTHER -> TRUE

\* C33: the decoding of a Button element gives a Button node whose inner
\* node is the decoding of its one child and whose callback id is the
\* element's, or the failure of that render (an Err of get_element_tree),
\* whatever child count the guest wrote, 0 included.
C33_ButtonDecodesOrFails ==
    (ar_result.kind # "none" /\ ~has_cycle(ar_view)) =>
        \/ ar_result.kind = "Err"
        \/ /\ ar_result.kind = "Ok"
           /\ buttons_decoded(ar_view.callbacks, ar_widget, ar_result.node)

-----------------------------------------------------------------------------
(* Properties of module loading and rendering, under Spec *)

\* a request to create a layer surface has gone out for an id leased to the
\* module being loaded: it is in the event channel or the UI has made it
surface_requested(module) ==
    \E id \in DOMAIN module.wasm_id.leased_ids :
        LET iced_id == module.wasm_id.leased_ids[id]
        IN  \/ iced_id \in app_surfaces
            \/ \E i \in 1..Len(chan) : chan[i] = CreateLayerSurface(iced_id)

\* C31: a layer surface is requested only for modules that end up loaded:
\* when load_modules gives a module up after its surfaces (its table does
\* not decode, setup_cleanup is missing or fails), no CreateLayerSurface
\* has been emitted for it.
C31_SurfacesOnlyForLoaded ==
    [][(/\ pc = "load_surfaces"
        /\ pc' = "load"
        /\ host_modules' = host_modules) => ~surface_requested(cur)]_vars

\* the surfaces loop has gone past a descriptor whose id the module holds no
\* lease for, although the module holds a lease: nothing was added or sent
C32_UnleasedDescriptorSkipped ==
    /\ pc = "load_surfaces"
    /\ cur.k = 2
    /\ cur.wasm_id.leased_ids # EmptyMap
    /\ cur.used_surface_ids = <<>>
    /\ ~surface_requested(cur)

\* every id of a list is leased in w
all_leased(w, ids) == \A i \in 1..Len(ids) : has_lease(w, ids[i])

\* C32: a surface descriptor whose id is not leased to the module that
\* declares it (id 0 and the ids of other modules included) has no effect:
\* every id in a module's used list is leased to that module, the render
\* loop passes view only such ids, and each step of the surfaces loop adds
\* to the used list, and sends a CreateLayerSurface for, a leased id only.
C32_UnleasedDescriptorHasNoEffect ==
    /\ [](/\ all_leased(cur.wasm_id, cur.used_surface_ids)
          /\ \A m \in 1..Len(host_modules) :
                all_leased(host_modules[m].wasm_id, host_modules[m].used_surface_ids)
          /\ pc = "render_surface" =>
                all_leased(module_at(host_modules, cur_render.module_id).wasm_id,
                           cur_render.surface_ids))
    /\ [][(pc = "load_surfaces" /\ cur'.loading /\ cur'.k = cur.k + 1) =>
            /\ \/ cur'.used_surface_ids = cur.used_surface_ids
               \/ \E id \in DOMAIN cur.wasm_id.leased_ids :
                    cur'.used_surface_ids = Append(cur.used_surface_ids, id)
            /\ \/ chan' = chan
               \/ \E id \in DOMAIN cur.wasm_id.leased_ids :
                    chan' = Append(chan,
                                CreateLayerSurface(cur.wasm_id.leased_ids[id]))]_vars

\* the render loop is at a surface of the module whose id translates, with
\* the event channel open: a view that is called and decoded is sent
AtRenderOfSurface ==
    /\ pc = "render_surface"
    /\ cur_render.k <= Len(cur_render.surface_ids)
    /\ chan_open
    /\ get_iced_id(module_at(host_modules, cur_render.module_id).wasm_id,
                   cur_render.surface_ids[cur_render.k]) # 0

\* C34: when the tree of a surface does not decode, no ModViewData is
\* emitted for the surface, the trees the UI has stored stay as they are,
\* and the loop goes on to the module's next surface in the same cycle.
C34_FailedDecodeSkipsOneSurface ==
    [][(AtRenderOfSurface /\ chan' = chan /\ cur_render' # cur_render) =>
            /\ pc' = "render_surface"
            /\ cur_render' = [cur_render EXCEPT !.k = cur_render.k + 1]
            /\ app_wasm' = app_wasm
            /\ host_modules' = host_modules]_vars

\* the UI thread takes an Init event off the event channel
InitDelivered ==
    /\ chan_open
    /\ app_pending = NoMsg
    /\ chan # <<>>
    /\ Head(chan).type = "Init"
    /\ chan' = Tail(chan)
    /\ chan_open'
    /\ app_wasm'.some /\ app_wasm'.epoch = Head(chan).epoch

\* C35: when the Init event of a restarted runtime is delivered, every layer
\* surface made for the modules of the run before is destroyed, those that
\* never received a tree included: no module surface is left.
C35_RestartDestroysSurfaces ==
    [][InitDelivered => app_surfaces' = {}]_vars

-----------------------------------------------------------------------------
(* Properties of the sink volume throttle, under SpecVolume *)

\* C36: two sink volume updates are never applied to the server less than
\* UPDATE_INTERVAL apart: a request that set_sink_volume sees within
\* UPDATE_INTERVAL of the last applied update is not applied by that call
\* (it returns false) and a thread is left to send it later.
C36_UpdatesAnIntervalApart ==
    (/\ vl_call.step = "called"
     /\ vl_call.applied_before
     /\ vl_call.delta < UPDATE_INTERVAL) =>
        (~vl_call.ret /\ vl_threads # <<>>)

\* C37: at most one deferred send of the sink volume is pending at any
\* time, and sink_thread_scheduled is true exactly while one is pending.
C37_OneDeferredSendFlagged ==
    /\ Len(vl_threads) <= 1
    /\ vl_scheduled <=> (vl_threads # <<>>)

\* C38: after the last request of a module only finitely many sink volume
\* requests are processed: from some point on no thread sleeps and no
\* request is in a channel of the service.
C38_DeferredSendsEnd ==
    <>[](vl_threads = <<>> /\ vl_request_rx = <<>> /\ vl_internal_rx = <<>>)

-----------------------------------------------------------------------------
(* Properties of ModuleIds, under SpecModuleIds *)

\* C39: after any calls of register_module and unregister_module a module
\* id is in the id set of an event type exactly when the event type is in
\* the event set recorded for the module; after unregister_module(id) the
\* id is in no id set, also when it was registered more than once.
C39_IdSetsMatchEventSets ==
    \A id \in 0..MaxModuleId, event \in EventTypes :
        (event \in DOMAIN mi_events_to_ids /\ id \in mi_events_to_ids[event])
            <=> (id \in DOMAIN mi_ids_to_events /\ event \in mi_ids_to_events[id])

-----------------------------------------------------------------------------
(* Properties of AudioState, under SpecAudioState *)

\* C40: once the AudioState has processed the sinks, the default sink name
\* and the cards, in whatever order, its sink profile list and its default
\* sink profile are the profiles and the selected profile of the card of
\* the default sink.
C40_SinkProfileOfDefaultSinkCard ==
    (au_left \cap {"SinksChanged", "DefaultSinkChanged", "CardsChanged"} = {}) =>
        LET card == card_of(au_devices.cards,
                            default_device(au_devices.sinks, au_devices.default_sink))
        IN  /\ card.some
            /\ au_state.sink_profiles = profile_descriptions(card.v)
            /\ au_state.sink_default_profile = selected_description(card.v)

=============================================================================
